---------------------------- MODULE Spec2Model ----------------------------
(***************************************************************************)
(* A model of the Marketing Data Engine services:                          *)
(*   api/services/data_normalization.py  (DataNormalizationService)        *)
(*   api/services/data_ingestion.py      (DataIngestionService)            *)
(*   api/services/data_quality.py        (DataQualityService)              *)
(*   api/services/data_merger.py         (DataMergerService)               *)
(*                                                                         *)
(* A table (pandas DataFrame) is a record [cols, rows]: cols is the        *)
(* ordered list of column names, rows the ordered list of rows, each row   *)
(* a function from the column names to cells.  A cell is a record          *)
(* [k, n, d, s]: k = "null" (NaN/None), "num" (the rational n/d, d > 0,    *)
(* in lowest terms), "inf" (n = 1: +inf, n = -1: -inf) or "str" (text s).  *)
(* Floating-point numbers are modelled by exact rationals; the special     *)
(* values NaN and +-inf that float division produces are kept apart.       *)
(***************************************************************************)
EXTENDS Integers, Sequences, FiniteSets, TLC

VARIABLES
    df,               \* normalization: the table being normalized
    hist,             \* normalization: the tables given to the calls made so far
    calls,            \* normalization: the stage calls made so far, [op, arg]
    STANDARD_SCHEMA,  \* normalization: the class attribute STANDARD_SCHEMA
    pc,               \* normalization: where the normalize call stands
    args,             \* normalization: the arguments of the normalize call
    log_entries,      \* normalization: log_entries of the normalize call
    normalization_log,\* normalization: DataNormalizationService.normalization_log
    columns,          \* ingestion: the column names of the ingested table
    detections,       \* ingestion: detect_platform calls, [cols, platform, confidence]
    qdf,              \* quality: the table under check
    qInputs,          \* quality: the tables given to check_quality so far
    quality_reports,  \* quality: DataQualityService.quality_reports
    adf,              \* merger: the table given to the aggregation
    aggregated,       \* merger: the result of the aggregation calls made so far
    datasets,         \* merger: the tables given to merge_datasets
    merged,           \* merger: the results of the merge_datasets calls made so far
    merge_history,    \* merger: DataMergerService.merge_history
    performance_issues, \* quality: the outcomes of detect_performance_anomalies
    ingestion_history,\* ingestion: DataIngestionService.ingestion_history
    ingested,         \* ingestion: the results of the ingestion calls made so far
    data_store,       \* app: data_store, a table per handle
    clock,            \* app: the time, in ticks of half a second
    responses,        \* app: the last request served with its response
    served            \* app: the number of requests served so far

pipeVars == <<STANDARD_SCHEMA, pc, args, log_entries, normalization_log>>
normVars == <<df, hist, calls, STANDARD_SCHEMA, pc, args, log_entries, normalization_log>>
ingestVars == <<columns, detections>>
qualityVars == <<qdf, qInputs, quality_reports>>
mergerVars == <<adf, aggregated>>
mergeVars == <<datasets, merged, merge_history>>
historyVars == <<ingestion_history, ingested>>
appVars == <<data_store, clock, responses, served>>
moreVars == <<mergeVars, performance_issues, historyVars, appVars>>
vars == <<df, hist, calls, STANDARD_SCHEMA, pc, args, log_entries, normalization_log,
          columns, detections, qdf, qInputs, quality_reports, adf, aggregated,
          datasets, merged, merge_history, performance_issues, ingestion_history,
          ingested, data_store, clock, responses, served>>

-----------------------------------------------------------------------------
(* Bounds of the model. *)

\* the largest magnitude of a numeric input cell
MaxVal == 2
\* the largest number of rows of an input table
MaxRows == 2
\* the largest number of successive calls of one stage
MaxCalls == 2

-----------------------------------------------------------------------------
(* Cells and float arithmetic. *)

Null == [k |-> "null", n |-> 0, d |-> 1, s |-> ""]
Inf(sign) == [k |-> "inf", n |-> sign, d |-> 1, s |-> ""]
Str(t) == [k |-> "str", n |-> 0, d |-> 1, s |-> t]

Abs(x) == IF x < 0 THEN -x ELSE x
Sign(x) == IF x < 0 THEN -1 ELSE IF x > 0 THEN 1 ELSE 0

RECURSIVE GCD(_, _)
GCD(a, b) == IF b = 0 THEN a ELSE GCD(b, a % b)

\* the float n/d, for d # 0
Num(n, d) ==
    LET g == GCD(Abs(n), Abs(d))
        sd == Sign(d)
    IN [k |-> "num", n |-> (sd * n) \div g, d |-> (sd * d) \div g, s |-> ""]

Whole(n) == Num(n, 1)

IsNull(c) == c.k = "null"
IsNum(c) == c.k = "num"
IsInf(c) == c.k = "inf"
IsZero(c) == c.k = "num" /\ c.n = 0

\* the sign of a numeric or infinite cell
CellSign(c) == Sign(c.n)

\* a < b, a = b for two numeric cells
NumLess(a, b) == a.n * b.d < b.n * a.d
NumLeq(a, b) == a.n * b.d <= b.n * a.d

\* float division a / b: NaN propagates, x / 0 is +-inf, 0 / 0 is NaN
FDiv(a, b) ==
    IF IsNull(a) \/ IsNull(b) THEN Null
    ELSE IF IsInf(a) THEN (IF IsInf(b) THEN Null
                           ELSE Inf(CellSign(a) * (IF CellSign(b) < 0 THEN -1 ELSE 1)))
    ELSE IF IsInf(b) THEN Whole(0)
    ELSE IF b.n = 0 THEN (IF a.n = 0 THEN Null ELSE Inf(CellSign(a)))
    ELSE Num(a.n * b.d, a.d * b.n)

\* float multiplication a * b
FMul(a, b) ==
    IF IsNull(a) \/ IsNull(b) THEN Null
    ELSE IF IsInf(a) \/ IsInf(b)
         THEN (IF CellSign(a) * CellSign(b) = 0 THEN Null
               ELSE Inf(CellSign(a) * CellSign(b)))
    ELSE Num(a.n * b.n, a.d * b.d)

\* the integer nearest to p / q (q > 0), ties to the even one
RoundHalfEven(p, q) ==
    LET f == p \div q
        r == p - f * q
    IN IF 2 * r < q THEN f
       ELSE IF 2 * r > q THEN f + 1
       ELSE IF f % 2 = 0 THEN f ELSE f + 1

\* 10 ^ e
RECURSIVE Pow10(_)
Pow10(e) == IF e = 0 THEN 1 ELSE 10 * Pow10(e - 1)

\* Series.round(decimals): NaN and +-inf stay as they are
Round(c, decimals) ==
    IF IsNum(c) THEN Num(RoundHalfEven(c.n * Pow10(decimals), c.d), Pow10(decimals))
    ELSE c

-----------------------------------------------------------------------------
(* Tables. *)

Range(s) == {s[i] : i \in 1..Len(s)}
HasCol(t, c) == c \in Range(t.cols)
NRows(t) == Len(t.rows)

\* the columns of master that are in S, in master's order
ColsOf(master, S) == SelectSeq(master, LAMBDA c : c \in S)

\* the rows over the columns S whose cell in column c is drawn from dom[c]
RECURSIVE RowsOver(_, _)
RowsOver(S, dom) ==
    IF S = {} THEN {[x \in {} |-> Null]}
    ELSE LET c == CHOOSE x \in S : TRUE
         IN {[x \in S |-> IF x = c THEN v ELSE r[x]] :
                v \in dom[c], r \in RowsOver(S \ {c}, dom)}

\* all tables with the columns cs (a sequence), between lo and hi rows, the
\* cells of column c drawn from dom[c]
Tables(cs, dom, lo, hi) ==
    LET RowSet == RowsOver(Range(cs), dom)
    IN UNION {{[cols |-> cs, rows |-> rs] : rs \in [1..n -> RowSet]} : n \in lo..hi}

\* df[c] = F(row) for each row: column c is replaced, or appended when new
SetColumn(t, c, F(_)) ==
    [cols |-> IF HasCol(t, c) THEN t.cols ELSE Append(t.cols, c),
     rows |-> [i \in 1..NRows(t) |->
                 [x \in DOMAIN t.rows[i] \cup {c} |->
                     IF x = c THEN F(t.rows[i]) ELSE t.rows[i][x]]]]

\* the rows of t at the indices satisfying Keep, in order
RECURSIVE FilterIdx(_, _, _)
FilterIdx(rows, Keep(_), i) ==
    IF i > Len(rows) THEN <<>>
    ELSE (IF Keep(i) THEN <<rows[i]>> ELSE <<>>) \o FilterIdx(rows, Keep, i + 1)

EmptyTable == [cols |-> <<>>, rows |-> <<>>]

-----------------------------------------------------------------------------
(* DataNormalizationService: the stages of normalize. *)

\* CURRENCY_RATES, in ten-thousandths of a US dollar
CURRENCY_RATES ==
    [c \in {"USD", "EUR", "GBP", "CAD", "AUD", "INR", "JPY", "BRL", "MXN"} |->
        CASE c = "USD" -> 10000
          [] c = "EUR" -> 10800
          [] c = "GBP" -> 12700
          [] c = "CAD" -> 7400
          [] c = "AUD" -> 6500
          [] c = "INR" -> 120
          [] c = "JPY" -> 67
          [] c = "BRL" -> 2000
          [] c = "MXN" -> 580]

\* the rate of currency code c as a float
Rate(c) == Num(CURRENCY_RATES[c], 10000)

\* str.upper() on the currency codes of the model
Upper(t) ==
    CASE t = "usd" -> "USD"
      [] t = "eur" -> "EUR"
      [] t = "gbp" -> "GBP"
      [] OTHER -> t

\* convert_row with the two rates exchanged
ConvertRowInverted(row, col, target_currency) ==
    LET curr == row["currency"]
    IN IF IsNull(curr) \/ Upper(curr.s) \notin DOMAIN CURRENCY_RATES
       THEN row[col]
       ELSE FDiv(FMul(row[col], Rate(target_currency)), Rate(Upper(curr.s)))

\* convert_row: the converted value of row[col]
ConvertRow(row, col, target_currency) ==
    LET curr == row["currency"]
    IN IF IsNull(curr) \/ Upper(curr.s) \notin DOMAIN CURRENCY_RATES
       THEN row[col]
       ELSE FDiv(FMul(row[col], Rate(Upper(curr.s))), Rate(target_currency))

monetary_cols == <<"spend", "cpc", "cpm", "cpa", "conversion_value">>

\* the loop over monetary_cols from its i-th entry on
RECURSIVE ConvertCols(_, _, _)
ConvertCols(t, i, target_currency) ==
    IF i > Len(monetary_cols) THEN t
    ELSE LET col == monetary_cols[i]
             t1 == IF HasCol(t, col)
                   THEN SetColumn(t, col, LAMBDA row : ConvertRow(row, col, target_currency))
                   ELSE t
         IN ConvertCols(t1, i + 1, target_currency)

\* _normalize_currency
NormalizeCurrency(t, target_currency) ==
    IF target_currency \notin DOMAIN CURRENCY_RATES THEN t
    ELSE IF HasCol(t, "currency") THEN ConvertCols(t, 1, target_currency)
    ELSE t

key_cols == <<"date", "campaign_name", "adset_name", "ad_name", "platform">>

\* row restricted to the columns cs
Project(row, cs) == [c \in Range(cs) |-> row[c]]

\* _deduplicate with keep='first' in place of keep='last'
DeduplicateKeepFirst(t) ==
    LET existing_key_cols == SelectSeq(key_cols, LAMBDA c : HasCol(t, c))
        KeepFirstKey(i) == \A j \in 1..(i - 1) :
                              Project(t.rows[j], existing_key_cols)
                                  # Project(t.rows[i], existing_key_cols)
        KeepFirst(i) == \A j \in 1..(i - 1) : t.rows[j] # t.rows[i]
    IN IF existing_key_cols # <<>>
       THEN [t EXCEPT !.rows = FilterIdx(t.rows, KeepFirstKey, 1)]
       ELSE [t EXCEPT !.rows = FilterIdx(t.rows, KeepFirst, 1)]

\* _deduplicate removing, per key, only the first of several rows
DeduplicateOnePerKey(t) ==
    LET existing_key_cols == SelectSeq(key_cols, LAMBDA c : HasCol(t, c))
        Key(i) == IF existing_key_cols # <<>>
                  THEN Project(t.rows[i], existing_key_cols) ELSE t.rows[i]
        Keep(i) == \/ \E j \in 1..(i - 1) : Key(j) = Key(i)
                   \/ \A j \in (i + 1)..NRows(t) : Key(j) # Key(i)
    IN [t EXCEPT !.rows = FilterIdx(t.rows, Keep, 1)]

\* _deduplicate
Deduplicate(t) ==
    LET existing_key_cols == SelectSeq(key_cols, LAMBDA c : HasCol(t, c))
        KeepLast(i) == \A j \in (i + 1)..NRows(t) :
                          Project(t.rows[j], existing_key_cols)
                              # Project(t.rows[i], existing_key_cols)
        KeepFirst(i) == \A j \in 1..(i - 1) : t.rows[j] # t.rows[i]
    IN IF existing_key_cols # <<>>
       THEN [t EXCEPT !.rows = FilterIdx(t.rows, KeepLast, 1)]
       ELSE [t EXCEPT !.rows = FilterIdx(t.rows, KeepFirst, 1)]

\* the value that was computed, once
Only(S) == CHOOSE x \in S : TRUE

\* Series.replace(0, np.nan) that leaves the zeros in place
KeepZero(c) == c

\* Series.replace(0, np.nan)
ReplaceZero(c) == IF IsZero(c) THEN Null ELSE c

\* clicks / impressions * 100, rounded
DerivedCtr(row) == Round(FMul(FDiv(row["clicks"], row["impressions"]), Whole(100)), 4)
\* spend / clicks, rounded
DerivedCpc(row) == Round(FDiv(row["spend"], row["clicks"]), 4)
\* spend / impressions * 1000, rounded
DerivedCpm(row) == Round(FMul(FDiv(row["spend"], row["impressions"]), Whole(1000)), 4)
\* spend / conversions.replace(0, nan), rounded
DerivedCpa(row) == Round(FDiv(row["spend"], ReplaceZero(row["conversions"])), 4)
\* conversion_value / spend.replace(0, nan), rounded
DerivedRoas(row) == Round(FDiv(row["conversion_value"], ReplaceZero(row["spend"])), 4)

\* if 'ctr' not in df.columns and 'clicks' in ... and 'impressions' in ...
WithCtr(t) ==
    IF ~HasCol(t, "ctr") /\ HasCol(t, "clicks") /\ HasCol(t, "impressions")
    THEN SetColumn(t, "ctr", DerivedCtr) ELSE t
WithCpc(t) ==
    IF ~HasCol(t, "cpc") /\ HasCol(t, "spend") /\ HasCol(t, "clicks")
    THEN SetColumn(t, "cpc", DerivedCpc) ELSE t
WithCpm(t) ==
    IF ~HasCol(t, "cpm") /\ HasCol(t, "spend") /\ HasCol(t, "impressions")
    THEN SetColumn(t, "cpm", DerivedCpm) ELSE t
WithCpa(t) ==
    IF ~HasCol(t, "cpa") /\ HasCol(t, "spend") /\ HasCol(t, "conversions")
    THEN SetColumn(t, "cpa", DerivedCpa) ELSE t
WithRoas(t) ==
    IF ~HasCol(t, "roas") /\ HasCol(t, "conversion_value") /\ HasCol(t, "spend")
    THEN SetColumn(t, "roas", DerivedRoas) ELSE t

\* _calculate_derived_metrics
CalculateDerivedMetrics(t) ==
    Only({WithRoas(t4) : t4 \in {WithCpa(t3) : t3 \in {WithCpm(t2) :
             t2 \in {WithCpc(t1) : t1 \in {WithCtr(t)}}}}})

-----------------------------------------------------------------------------
(* The stage calls as actions; the other services stay idle meanwhile. *)

\* STANDARD_SCHEMA as the class body defines it, in the dict's order; each
\* variant is the sequence of its characters
STANDARD_SCHEMA_0 ==
    <<
       [name |-> "campaign_name",
        variants |->
          << <<"c", "a", "m", "p", "a", "i", "g", "n">>,
             <<"c", "a", "m", "p", "a", "i", "g", "n", " ", "n", "a", "m", "e">>,
             <<"c", "a", "m", "p", "a", "i", "g", "n", "_", "n", "a", "m", "e">>,
             <<"c", "a", "m", "p", "a", "i", "g", "n", "n", "a", "m", "e">> >>],
       [name |-> "adset_name",
        variants |->
          << <<"a", "d", " ", "s", "e", "t">>,
             <<"a", "d", "s", "e", "t">>,
             <<"a", "d", "s", "e", "t", " ", "n", "a", "m", "e">>,
             <<"a", "d", "s", "e", "t", "_", "n", "a", "m", "e">>,
             <<"a", "d", " ", "g", "r", "o", "u", "p">>,
             <<"a", "d", "g", "r", "o", "u", "p">>,
             <<"a", "d", "g", "r", "o", "u", "p", "_", "n", "a", "m", "e">> >>],
       [name |-> "ad_name",
        variants |->
          << <<"a", "d">>,
             <<"a", "d", " ", "n", "a", "m", "e">>,
             <<"a", "d", "_", "n", "a", "m", "e">>,
             <<"c", "r", "e", "a", "t", "i", "v", "e">>,
             <<"c", "r", "e", "a", "t", "i", "v", "e", " ", "n", "a", "m", "e">>,
             <<"c", "r", "e", "a", "t", "i", "v", "e", "_", "n", "a", "m", "e">> >>],
       [name |-> "keyword",
        variants |->
          << <<"k", "e", "y", "w", "o", "r", "d">>,
             <<"k", "e", "y", "w", "o", "r", "d", "s">>,
             <<"s", "e", "a", "r", "c", "h", " ", "t", "e", "r", "m">>,
             <<"s", "e", "a", "r", "c", "h", "_", "t", "e", "r", "m">> >>],
       [name |-> "date",
        variants |->
          << <<"d", "a", "t", "e">>,
             <<"d", "a", "y">>,
             <<"r", "e", "p", "o", "r", "t", "i", "n", "g", "_", "p", "e", "r", "i", "o", "d">>,
             <<"r", "e", "p", "o", "r", "t", "_", "d", "a", "t", "e">>,
             <<"s", "t", "a", "t", "_", "d", "a", "y", "s">> >>],
       [name |-> "platform",
        variants |->
          << <<"p", "l", "a", "t", "f", "o", "r", "m">>,
             <<"s", "o", "u", "r", "c", "e">>,
             <<"n", "e", "t", "w", "o", "r", "k">> >>],
       [name |-> "country",
        variants |->
          << <<"c", "o", "u", "n", "t", "r", "y">>,
             <<"c", "o", "u", "n", "t", "r", "y", "_", "c", "o", "d", "e">>,
             <<"c", "o", "u", "n", "t", "r", "y", " ", "c", "o", "d", "e">> >>],
       [name |-> "device",
        variants |->
          << <<"d", "e", "v", "i", "c", "e">>,
             <<"d", "e", "v", "i", "c", "e", "_", "t", "y", "p", "e">>,
             <<"d", "e", "v", "i", "c", "e", " ", "t", "y", "p", "e">> >>],
       [name |-> "impressions",
        variants |->
          << <<"i", "m", "p", "r", "e", "s", "s", "i", "o", "n", "s">>,
             <<"i", "m", "p", "s">>,
             <<"i", "m", "p", "r">>,
             <<"i", "m", "p", "r", "e", "s", "s", "i", "o", "n", "s">> >>],
       [name |-> "reach",
        variants |->
          << <<"r", "e", "a", "c", "h">>,
             <<"u", "n", "i", "q", "u", "e", "_", "u", "s", "e", "r", "s">>,
             <<"u", "n", "i", "q", "u", "e", " ", "u", "s", "e", "r", "s">> >>],
       [name |-> "frequency",
        variants |->
          << <<"f", "r", "e", "q", "u", "e", "n", "c", "y">>,
             <<"f", "r", "e", "q">> >>],
       [name |-> "clicks",
        variants |->
          << <<"c", "l", "i", "c", "k", "s">>,
             <<"c", "l", "i", "c", "k">>,
             <<"l", "i", "n", "k", "_", "c", "l", "i", "c", "k", "s">>,
             <<"l", "i", "n", "k", " ", "c", "l", "i", "c", "k", "s">> >>],
       [name |-> "ctr",
        variants |->
          << <<"c", "t", "r">>,
             <<"c", "l", "i", "c", "k", "_", "t", "h", "r", "o", "u", "g", "h", "_", "r", "a", "t", "e">>,
             <<"c", "l", "i", "c", "k", "-", "t", "h", "r", "o", "u", "g", "h", " ", "r", "a", "t", "e">>,
             <<"c", "l", "i", "c", "k", " ", "t", "h", "r", "o", "u", "g", "h", " ", "r", "a", "t", "e">> >>],
       [name |-> "engagements",
        variants |->
          << <<"e", "n", "g", "a", "g", "e", "m", "e", "n", "t", "s">>,
             <<"e", "n", "g", "a", "g", "e", "m", "e", "n", "t">>,
             <<"t", "o", "t", "a", "l", "_", "e", "n", "g", "a", "g", "e", "m", "e", "n", "t", "s">> >>],
       [name |-> "conversions",
        variants |->
          << <<"c", "o", "n", "v", "e", "r", "s", "i", "o", "n", "s">>,
             <<"c", "o", "n", "v">>,
             <<"c", "o", "n", "v", "e", "r", "t", "s">>,
             <<"p", "u", "r", "c", "h", "a", "s", "e", "s">>,
             <<"c", "o", "m", "p", "l", "e", "t", "e", "s">> >>],
       [name |-> "conversion_value",
        variants |->
          << <<"c", "o", "n", "v", "e", "r", "s", "i", "o", "n", "_", "v", "a", "l", "u", "e">>,
             <<"c", "o", "n", "v", " ", "v", "a", "l", "u", "e">>,
             <<"c", "o", "n", "v", "e", "r", "s", "i", "o", "n", " ", "v", "a", "l", "u", "e">>,
             <<"r", "e", "v", "e", "n", "u", "e">>,
             <<"p", "u", "r", "c", "h", "a", "s", "e", "_", "v", "a", "l", "u", "e">> >>],
       [name |-> "leads",
        variants |->
          << <<"l", "e", "a", "d", "s">>,
             <<"l", "e", "a", "d">>,
             <<"s", "i", "g", "n", "u", "p", "s">>,
             <<"s", "i", "g", "n", "_", "u", "p", "s">> >>],
       [name |-> "spend",
        variants |->
          << <<"s", "p", "e", "n", "d">>,
             <<"c", "o", "s", "t">>,
             <<"a", "d", " ", "s", "p", "e", "n", "d">>,
             <<"a", "d", "_", "s", "p", "e", "n", "d">>,
             <<"a", "m", "o", "u", "n", "t", " ", "s", "p", "e", "n", "t">>,
             <<"a", "m", "o", "u", "n", "t", "_", "s", "p", "e", "n", "t">> >>],
       [name |-> "cpc",
        variants |->
          << <<"c", "p", "c">>,
             <<"c", "o", "s", "t", "_", "p", "e", "r", "_", "c", "l", "i", "c", "k">>,
             <<"c", "o", "s", "t", " ", "p", "e", "r", " ", "c", "l", "i", "c", "k">>,
             <<"a", "v", "e", "r", "a", "g", "e", " ", "c", "p", "c">>,
             <<"a", "v", "g", " ", "c", "p", "c">> >>],
       [name |-> "cpm",
        variants |->
          << <<"c", "p", "m">>,
             <<"c", "o", "s", "t", "_", "p", "e", "r", "_", "m", "i", "l", "l", "e">>,
             <<"c", "o", "s", "t", " ", "p", "e", "r", " ", "m", "i", "l", "l", "e">>,
             <<"c", "o", "s", "t", " ", "p", "e", "r", " ", "1", "0", "0", "0", " ", "i", "m", "p", "r", "e", "s", "s", "i", "o", "n", "s">>,
             <<"a", "v", "e", "r", "a", "g", "e", " ", "c", "p", "m">> >>],
       [name |-> "cpa",
        variants |->
          << <<"c", "p", "a">>,
             <<"c", "o", "s", "t", "_", "p", "e", "r", "_", "a", "c", "q", "u", "i", "s", "i", "t", "i", "o", "n">>,
             <<"c", "o", "s", "t", " ", "p", "e", "r", " ", "a", "c", "q", "u", "i", "s", "i", "t", "i", "o", "n">>,
             <<"c", "o", "s", "t", " ", "p", "e", "r", " ", "c", "o", "n", "v", "e", "r", "s", "i", "o", "n">> >>],
       [name |-> "roas",
        variants |->
          << <<"r", "o", "a", "s">>,
             <<"r", "e", "t", "u", "r", "n", "_", "o", "n", "_", "a", "d", "_", "s", "p", "e", "n", "d">>,
             <<"r", "e", "t", "u", "r", "n", " ", "o", "n", " ", "a", "d", " ", "s", "p", "e", "n", "d">> >>],
       [name |-> "video_views",
        variants |->
          << <<"v", "i", "d", "e", "o", "_", "v", "i", "e", "w", "s">>,
             <<"v", "i", "d", "e", "o", " ", "v", "i", "e", "w", "s">>,
             <<"v", "i", "d", "e", "o", "_", "v", "i", "e", "w", "s", "_", "3", "s">>,
             <<"3", "-", "s", "e", "c", "o", "n", "d", " ", "v", "i", "d", "e", "o", " ", "v", "i", "e", "w", "s">> >>],
       [name |-> "video_completions",
        variants |->
          << <<"v", "i", "d", "e", "o", "_", "c", "o", "m", "p", "l", "e", "t", "i", "o", "n", "s">>,
             <<"v", "i", "d", "e", "o", " ", "c", "o", "m", "p", "l", "e", "t", "i", "o", "n", "s">>,
             <<"1", "0", "0", "%", " ", "v", "i", "d", "e", "o", " ", "v", "i", "e", "w", "s">> >>],
       [name |-> "video_view_rate",
        variants |->
          << <<"v", "i", "d", "e", "o", "_", "v", "i", "e", "w", "_", "r", "a", "t", "e">>,
             <<"v", "i", "d", "e", "o", " ", "v", "i", "e", "w", " ", "r", "a", "t", "e">>,
             <<"v", "t", "r">>,
             <<"v", "c", "r">> >>],
       [name |-> "quality_score",
        variants |->
          << <<"q", "u", "a", "l", "i", "t", "y", "_", "s", "c", "o", "r", "e">>,
             <<"q", "u", "a", "l", "i", "t", "y", " ", "s", "c", "o", "r", "e">>,
             <<"q", "s">> >>],
       [name |-> "search_impression_share",
        variants |->
          << <<"s", "e", "a", "r", "c", "h", "_", "i", "m", "p", "r", "e", "s", "s", "i", "o", "n", "_", "s", "h", "a", "r", "e">>,
             <<"s", "e", "a", "r", "c", "h", " ", "i", "m", "p", "r", "e", "s", "s", "i", "o", "n", " ", "s", "h", "a", "r", "e">>,
             <<"s", "i", "s">> >>] >>

\* no normalize call under way: the service as constructed
PipeIdle ==
    /\ STANDARD_SCHEMA = STANDARD_SCHEMA_0
    /\ pc = "idle" /\ args = <<>> /\ log_entries = <<>> /\ normalization_log = <<>>

NormIdle == df = EmptyTable /\ hist = <<>> /\ calls = <<>> /\ PipeIdle
IngestIdle == columns = <<>> /\ detections = <<>>
QualityIdle == qdf = EmptyTable /\ qInputs = <<>> /\ quality_reports = <<>>
MergerIdle == adf = EmptyTable /\ aggregated = <<>>
MergeIdle == datasets = <<>> /\ merged = <<>> /\ merge_history = <<>>
HistoryIdle == ingestion_history = <<>> /\ ingested = <<>>
AppIdle == data_store = <<>> /\ clock = 0 /\ responses = <<>> /\ served = 0
MoreIdle == MergeIdle /\ performance_issues = <<>> /\ HistoryIdle /\ AppIdle

\* one call of a stage: the table is replaced by the stage's result
StageCall(op, arg, result) ==
    /\ Len(calls) < MaxCalls
    /\ df' = result
    /\ hist' = Append(hist, df)
    /\ calls' = Append(calls, [op |-> op, arg |-> arg])
    /\ UNCHANGED <<pipeVars, ingestVars, qualityVars, mergerVars, moreVars>>

\* the table a call returned: the input of the next call, or the current table
Returned(i) == IF i < Len(calls) THEN hist[i + 1] ELSE df

\* the numeric input cells: NaN and the whole numbers up to MaxVal
NumDom == {Null} \cup {Whole(v) : v \in 0..MaxVal}
\* the cells of a ratio column that the input already carries
GivenDom == {Whole(1)}

-----------------------------------------------------------------------------
(* SpecDerived: _calculate_derived_metrics on tables of raw metric columns. *)

DerivedSchemas ==
    { <<"clicks", "impressions">>, <<"spend", "clicks">>, <<"spend", "impressions">>,
      <<"spend", "conversions">>, <<"conversion_value", "spend">>,
      <<"clicks", "impressions", "ctr">>, <<"spend", "clicks", "cpc">> }

RatioCols == {"ctr", "cpc", "cpm", "cpa", "roas"}

DerivedDom ==
    [c \in {"clicks", "impressions", "spend", "conversions", "conversion_value"}
           \cup RatioCols |->
        IF c \in RatioCols THEN GivenDom ELSE NumDom]

InitDerived ==
    /\ df \in UNION {Tables(cs, DerivedDom, 1, MaxRows) : cs \in DerivedSchemas}
    /\ hist = <<>>
    /\ calls = <<>>
    /\ PipeIdle
    /\ IngestIdle /\ QualityIdle /\ MergerIdle /\ MoreIdle

CalculateDerivedMetricsCall == StageCall("derived", "", CalculateDerivedMetrics(df))

NextDerived == CalculateDerivedMetricsCall

SpecDerived == InitDerived /\ [][NextDerived]_vars

\* v is a multiple of 1/10^4 nearest to p / q
IsRounded4(v, p, q) ==
    LET sp == IF q < 0 THEN -p ELSE p
        sq == Abs(q)
    IN /\ IsNum(v)
       /\ 10000 % v.d = 0
       /\ 2 * Abs(v.n * (10000 \div v.d) * sq - sp * 10000) <= sq

\* the derived-metrics calls that computed column c from columns a and b
ComputedBy(i, c, a, b) ==
    /\ calls[i].op = "derived"
    /\ ~HasCol(hist[i], c) /\ HasCol(hist[i], a) /\ HasCol(hist[i], b)

\* C1: when the backfill computes ctr (clicks and impressions present, ctr
\* absent), each row's ctr is clicks/impressions*100 rounded to 4 decimals,
\* and is null in every row whose impressions is 0, clicks > 0 included.
C1_CtrBackfill ==
    \A i \in 1..Len(calls) :
        ComputedBy(i, "ctr", "clicks", "impressions") =>
            /\ HasCol(Returned(i), "ctr")
            /\ NRows(Returned(i)) = NRows(hist[i])
            /\ \A r \in 1..NRows(hist[i]) :
                  LET c == hist[i].rows[r]["clicks"]
                      m == hist[i].rows[r]["impressions"]
                      v == Returned(i).rows[r]["ctr"]
                  IN /\ IsZero(m) => IsNull(v)
                     /\ (IsNum(c) /\ IsNum(m) /\ ~IsZero(m)) =>
                            IsRounded4(v, c.n * m.d * 100, c.d * m.n)

\* the part of C1 the code satisfies: the value where impressions is not 0,
\* and null where clicks and impressions are both 0
C1_CtrValueNonZeroImpressions ==
    \A i \in 1..Len(calls) :
        ComputedBy(i, "ctr", "clicks", "impressions") =>
            /\ HasCol(Returned(i), "ctr")
            /\ NRows(Returned(i)) = NRows(hist[i])
            /\ \A r \in 1..NRows(hist[i]) :
                  LET c == hist[i].rows[r]["clicks"]
                      m == hist[i].rows[r]["impressions"]
                      v == Returned(i).rows[r]["ctr"]
                  IN /\ (IsZero(m) /\ IsZero(c)) => IsNull(v)
                     /\ (IsZero(m) /\ IsNum(c) /\ c.n > 0) => v = Inf(1)
                     /\ (IsNum(c) /\ IsNum(m) /\ ~IsZero(m)) =>
                            IsRounded4(v, c.n * m.d * 100, c.d * m.n)

\* the metrics of C2 with their numerator and denominator columns
C2Metrics ==
    { [name |-> "cpc", num |-> "spend", den |-> "clicks"],
      [name |-> "cpm", num |-> "spend", den |-> "impressions"],
      [name |-> "cpa", num |-> "spend", den |-> "conversions"],
      [name |-> "roas", num |-> "conversion_value", den |-> "spend"] }

\* C2: each of cpc, cpm, cpa, roas that the backfill computes is null, never
\* infinite, in every row whose denominator is 0.
C2_ZeroDenominatorNull ==
    \A i \in 1..Len(calls) : \A m \in C2Metrics :
        ComputedBy(i, m.name, m.num, m.den) =>
            /\ HasCol(Returned(i), m.name)
            /\ \A r \in 1..NRows(hist[i]) :
                  IsZero(hist[i].rows[r][m.den]) => IsNull(Returned(i).rows[r][m.name])

-----------------------------------------------------------------------------
(* SpecDedup: _deduplicate, called repeatedly on its own output. *)

\* the largest number of rows of a table given to the deduplication
MaxDedupRows == 3

DedupSchemas ==
    { <<"date", "campaign_name", "clicks">>, <<"campaign_name", "clicks">>,
      <<"platform", "clicks">>, <<"clicks", "impressions">> }

DedupDom ==
    [c \in {"date", "campaign_name", "platform", "clicks", "impressions"} |->
        CASE c = "date" -> {Str("2024-01-01"), Str("2024-01-02")}
          [] c = "campaign_name" -> {Null, Str("A"), Str("B")}
          [] c = "platform" -> {Str("google_ads"), Str("meta_ads")}
          [] c = "clicks" -> {Whole(0), Whole(1)}
          [] c = "impressions" -> {Null, Whole(1)}]

InitDedup ==
    /\ df \in UNION {Tables(cs, DedupDom, 0, MaxDedupRows) : cs \in DedupSchemas}
    /\ hist = <<>>
    /\ calls = <<>>
    /\ PipeIdle
    /\ IngestIdle /\ QualityIdle /\ MergerIdle /\ MoreIdle

DeduplicateCall == StageCall("dedup", "", Deduplicate(df))

NextDedup == DeduplicateCall

SpecDedup == InitDedup /\ [][NextDedup]_vars

\* C4: deduplication is idempotent: a second _deduplicate on the output of a
\* first removes no further row (same rows, same count).
C4_DedupIdempotent ==
    \A i \in 1..(Len(calls) - 1) :
        (calls[i].op = "dedup" /\ calls[i + 1].op = "dedup") =>
            /\ Returned(i + 1) = Returned(i)
            /\ NRows(Returned(i + 1)) = NRows(Returned(i))

\* a first call that removed rows, followed by a second call
C4_Witness ==
    /\ Len(calls) >= 2
    /\ calls[1].op = "dedup" /\ calls[2].op = "dedup"
    /\ NRows(hist[2]) < NRows(hist[1])

\* the k-th smallest element of the set S of numbers
KthOf(S, k) == CHOOSE x \in S : Cardinality({y \in S : y < x}) = k - 1

\* the key columns of table t, as a set
KeysOf(t) == {c \in Range(key_cols) : HasCol(t, c)}

\* row restricted to the set of columns K
KeyOf(row, K) == [c \in K |-> row[c]]

\* out holds exactly the rows of in at the indices S, in input order
IsSelection(out, in, S) ==
    /\ out.cols = in.cols
    /\ NRows(out) = Cardinality(S)
    /\ \A k \in 1..NRows(out) : out.rows[k] = in.rows[KthOf(S, k)]

\* C5: with key columns present the output has exactly one row per distinct
\* key, the last input row with that key, in input order; with none, only
\* the rows equal to an earlier row are removed.
C5_DedupKeyPolicy ==
    \A i \in 1..Len(calls) :
        calls[i].op = "dedup" =>
            LET in == hist[i]
                out == Returned(i)
                K == KeysOf(in)
                LastOfKey == {r \in 1..NRows(in) :
                                 \A q \in (r + 1)..NRows(in) :
                                     KeyOf(in.rows[q], K) # KeyOf(in.rows[r], K)}
                FirstOfRow == {r \in 1..NRows(in) :
                                  \A q \in 1..(r - 1) : in.rows[q] # in.rows[r]}
            IN IF K # {}
               THEN /\ IsSelection(out, in, LastOfKey)
                    /\ \A r \in 1..NRows(in) :
                          Cardinality({k \in 1..NRows(out) :
                              KeyOf(out.rows[k], K) = KeyOf(in.rows[r], K)}) = 1
               ELSE IsSelection(out, in, FirstOfRow)

\* a keyed table in which two rows share a key and differ elsewhere
C5_Witness ==
    /\ Len(calls) >= 1
    /\ calls[1].op = "dedup"
    /\ KeysOf(hist[1]) # {}
    /\ \E r \in 1..NRows(hist[1]) : \E q \in (r + 1)..NRows(hist[1]) :
          /\ KeyOf(hist[1].rows[r], KeysOf(hist[1])) = KeyOf(hist[1].rows[q], KeysOf(hist[1]))
          /\ hist[1].rows[r] # hist[1].rows[q]
    /\ NRows(Returned(1)) < NRows(hist[1])

-----------------------------------------------------------------------------
(* SpecCurrency: _normalize_currency, called with successive targets. *)

CurrencySchemas ==
    { <<"spend", "currency">>, <<"spend", "clicks", "currency">>, <<"spend">> }

CurrencyDom ==
    [c \in {"spend", "clicks", "currency"} |->
        CASE c = "spend" -> {Null, Whole(1), Whole(MaxVal)}
          [] c = "clicks" -> {Whole(1)}
          [] c = "currency" -> {Null, Str("USD"), Str("EUR"), Str("eur"), Str("XXX")}]

\* the target currencies of the calls; "XXX" is not in CURRENCY_RATES
Targets == {"USD", "EUR", "XXX"}

InitCurrency ==
    /\ df \in UNION {Tables(cs, CurrencyDom, 1, MaxRows) : cs \in CurrencySchemas}
    /\ hist = <<>>
    /\ calls = <<>>
    /\ PipeIdle
    /\ IngestIdle /\ QualityIdle /\ MergerIdle /\ MoreIdle

NormalizeCurrencyCall ==
    \E target \in Targets : StageCall("currency", target, NormalizeCurrency(df, target))

NextCurrency == NormalizeCurrencyCall

SpecCurrency == InitCurrency /\ [][NextCurrency]_vars

\* every row of t carries the currency code A
DenominatedIn(t, A) ==
    /\ HasCol(t, "currency")
    /\ \A r \in 1..NRows(t) :
          t.rows[r]["currency"].k = "str" /\ Upper(t.rows[r]["currency"].s) = A

\* a and b are both NaN, or numbers that differ by at most a millionth of b
WithinTolerance(a, b) ==
    \/ IsNull(a) /\ IsNull(b)
    \/ /\ IsNum(a) /\ IsNum(b)
       /\ Abs(a.n * b.d - b.n * a.d) * 1000000 <= Abs(b.n) * a.d

\* C6: for supported currencies A and B and a table denominated in A, the
\* call with target B followed by the call with target A reproduces the
\* original monetary values within tolerance.
C6_CurrencyRoundTrip ==
    \A i \in 1..(Len(calls) - 1) :
        LET B == calls[i].arg
            A == calls[i + 1].arg
        IN ( /\ calls[i].op = "currency" /\ calls[i + 1].op = "currency"
             /\ A \in DOMAIN CURRENCY_RATES /\ B \in DOMAIN CURRENCY_RATES
             /\ DenominatedIn(hist[i], A) ) =>
               \A r \in 1..NRows(hist[i]) :
                   \A c \in Range(monetary_cols) \cap Range(hist[i].cols) :
                       WithinTolerance(Returned(i + 1).rows[r][c], hist[i].rows[r][c])

\* the currency code of a row is one of CURRENCY_RATES, in either case
Supported(row) ==
    /\ row["currency"].k = "str"
    /\ \E code \in DOMAIN CURRENCY_RATES : row["currency"].s = code \/ Upper(row["currency"].s) = code

\* value * rate[code] / rate[target] for a numeric value, NaN for NaN
Converted(value, code, target) ==
    IF IsNull(value) THEN Null
    ELSE Num(value.n * CURRENCY_RATES[code], value.d * CURRENCY_RATES[target])

\* C19: with a supported target and a currency column, each monetary cell of
\* a row with a supported currency code becomes value * rate[row currency] /
\* rate[target], and every other cell is unchanged; without a currency
\* column, or with an unsupported target, every cell is unchanged.
C19_CurrencyFrame ==
    \A i \in 1..Len(calls) :
        calls[i].op = "currency" =>
            LET in == hist[i]
                out == Returned(i)
                target == calls[i].arg
            IN IF target \in DOMAIN CURRENCY_RATES /\ HasCol(in, "currency")
               THEN /\ out.cols = in.cols /\ NRows(out) = NRows(in)
                    /\ \A r \in 1..NRows(in) : \A c \in Range(in.cols) :
                          out.rows[r][c] =
                              IF c \in Range(monetary_cols) /\ Supported(in.rows[r])
                              THEN Converted(in.rows[r][c],
                                             Upper(in.rows[r]["currency"].s), target)
                              ELSE in.rows[r][c]
               ELSE out = in

\* a call to a supported target on a table with a row that is converted at a
\* rate other than 1 and a row whose currency code is missing or unsupported
C19_Witness ==
    \E i \in 1..Len(calls) :
        /\ calls[i].op = "currency" /\ calls[i].arg \in DOMAIN CURRENCY_RATES
        /\ HasCol(hist[i], "currency")
        /\ \E r \in 1..NRows(hist[i]) :
              /\ Supported(hist[i].rows[r])
              /\ IsNum(hist[i].rows[r]["spend"])
              /\ Returned(i).rows[r]["spend"] # hist[i].rows[r]["spend"]
        /\ \E r \in 1..NRows(hist[i]) :
              /\ ~Supported(hist[i].rows[r])
              /\ IsNum(hist[i].rows[r]["spend"])
              /\ Returned(i).rows[r]["spend"] = hist[i].rows[r]["spend"]

-----------------------------------------------------------------------------
(* DataIngestionService.detect_platform.  A column name is the sequence of *)
(* its characters, so that lower(), strip() and the substring test `id in  *)
(* col` are computed.                                                      *)

\* PLATFORM_MAPPINGS, in the dict's order, with each platform's 'identifiers'
PLATFORM_MAPPINGS ==
    << 
       [platform |-> "google_ads",
        identifiers |->
          << <<"c", "a", "m", "p", "a", "i", "g", "n">>,
             <<"a", "d", " ", "g", "r", "o", "u", "p">>,
             <<"k", "e", "y", "w", "o", "r", "d">>,
             <<"c", "l", "i", "c", "k", "s">>,
             <<"i", "m", "p", "r", "e", "s", "s", "i", "o", "n", "s">>,
             <<"c", "o", "s", "t">>,
             <<"c", "t", "r">> >>],
       [platform |-> "meta_ads",
        identifiers |->
          << <<"c", "a", "m", "p", "a", "i", "g", "n", " ", "n", "a", "m", "e">>,
             <<"a", "d", " ", "s", "e", "t", " ", "n", "a", "m", "e">>,
             <<"a", "d", " ", "n", "a", "m", "e">>,
             <<"c", "a", "m", "p", "a", "i", "g", "n", "_", "i", "d">>,
             <<"r", "e", "a", "c", "h">>,
             <<"f", "r", "e", "q", "u", "e", "n", "c", "y">> >>],
       [platform |-> "tiktok_ads",
        identifiers |->
          << <<"c", "a", "m", "p", "a", "i", "g", "n", "_", "n", "a", "m", "e">>,
             <<"a", "d", "g", "r", "o", "u", "p", "_", "n", "a", "m", "e">>,
             <<"a", "d", "_", "n", "a", "m", "e">>,
             <<"c", "a", "m", "p", "a", "i", "g", "n", "_", "i", "d">> >>],
       [platform |-> "linkedin_ads",
        identifiers |->
          << <<"c", "a", "m", "p", "a", "i", "g", "n", " ", "n", "a", "m", "e">>,
             <<"c", "a", "m", "p", "a", "i", "g", "n", " ", "g", "r", "o", "u", "p">>,
             <<"c", "r", "e", "a", "t", "i", "v", "e", " ", "n", "a", "m", "e">> >>] >>

\* the column names that the ingested tables draw from, as the file spells them
Vocabulary ==
    << <<"C", "a", "m", "p", "a", "i", "g", "n">>,
       <<"C", "l", "i", "c", "k", "s">>,
       <<"I", "m", "p", "r", "e", "s", "s", "i", "o", "n", "s">>,
       <<"C", "o", "s", "t">>,
       <<"C", "a", "m", "p", "a", "i", "g", "n", " ", "N", "a", "m", "e">>,
       <<"c", "a", "m", "p", "a", "i", "g", "n", "_", "i", "d">>,
       <<" ", "R", "e", "a", "c", "h", " ">> >>

\* the largest number of columns of an ingested table
MaxCols == 4

\* str.lower() on one character
LowerChar(ch) ==
    CASE ch = "A" -> "a"
      [] ch = "B" -> "b"
      [] ch = "C" -> "c"
      [] ch = "D" -> "d"
      [] ch = "E" -> "e"
      [] ch = "F" -> "f"
      [] ch = "G" -> "g"
      [] ch = "H" -> "h"
      [] ch = "I" -> "i"
      [] ch = "J" -> "j"
      [] ch = "K" -> "k"
      [] ch = "L" -> "l"
      [] ch = "M" -> "m"
      [] ch = "N" -> "n"
      [] ch = "O" -> "o"
      [] ch = "P" -> "p"
      [] ch = "Q" -> "q"
      [] ch = "R" -> "r"
      [] ch = "S" -> "s"
      [] ch = "T" -> "t"
      [] ch = "U" -> "u"
      [] ch = "V" -> "v"
      [] ch = "W" -> "w"
      [] ch = "X" -> "x"
      [] ch = "Y" -> "y"
      [] ch = "Z" -> "z"
      [] OTHER -> ch

\* str.lower()
Lower(name) == [i \in 1..Len(name) |-> LowerChar(name[i])]

\* str.strip(): the name without its leading and trailing blanks
RECURSIVE Strip(_)
Strip(name) ==
    IF name = <<>> THEN name
    ELSE IF Head(name) = " " THEN Strip(Tail(name))
    ELSE IF name[Len(name)] = " " THEN Strip(SubSeq(name, 1, Len(name) - 1))
    ELSE name

\* `id in col` for two strings
Contains(col, id) ==
    \E i \in 0..(Len(col) - Len(id)) : SubSeq(col, i + 1, i + Len(id)) = id

\* column_set without the lower-casing of the column names
ColumnSetCaseSensitive(cols) == {Strip(cols[i]) : i \in 1..Len(cols)}

\* column_set built from the first column alone
ColumnSetFirstOnly(cols) == {Strip(Lower(cols[i])) : i \in {1} \cap DOMAIN cols}

\* column_set: the lower-cased, stripped column names
ColumnSet(cols) == {Strip(Lower(cols[i])) : i \in 1..Len(cols)}

\* matches: the number of entries of identifiers found in some column
RECURSIVE Matches(_, _, _)
Matches(identifiers, column_set, i) ==
    IF i > Len(identifiers) THEN 0
    ELSE (IF \E col \in column_set : Contains(col, Lower(identifiers[i])) THEN 1 ELSE 0)
         + Matches(identifiers, column_set, i + 1)

\* scores[platform], for the i-th platform of PLATFORM_MAPPINGS
Score(cols, i) ==
    Num(Matches(PLATFORM_MAPPINGS[i].identifiers, ColumnSet(cols), 1),
        Len(PLATFORM_MAPPINGS[i].identifiers))

\* max(scores, key=scores.get): the first platform, in dict order, whose
\* score no other exceeds; best is the index found among the first i - 1
RECURSIVE BestPlatform(_, _, _)
BestPlatform(cols, i, best) ==
    IF i > Len(PLATFORM_MAPPINGS) THEN best
    ELSE IF NumLess(Score(cols, best), Score(cols, i))
         THEN BestPlatform(cols, i + 1, i)
         ELSE BestPlatform(cols, i + 1, best)

\* detect_platform without the 0.2 threshold
DetectPlatformNoThreshold(cols) ==
    [platform |-> PLATFORM_MAPPINGS[BestPlatform(cols, 2, 1)].platform,
     confidence |-> Score(cols, BestPlatform(cols, 2, 1))]

\* detect_platform
DetectPlatform(cols) ==
    LET best == BestPlatform(cols, 2, 1)
        confidence == Score(cols, best)
    IN IF NumLess(confidence, Num(2, 10))
       THEN [platform |-> "unknown", confidence |-> Whole(0)]
       ELSE [platform |-> PLATFORM_MAPPINGS[best].platform, confidence |-> confidence]

-----------------------------------------------------------------------------
(* SpecDetect: detect_platform on a table, and again on the same table    *)
(* with its columns in another order.                                      *)

\* the orders of the columns cols
Orders(cols) ==
    {p \in [1..Len(cols) -> Range(cols)] : Range(p) = Range(cols)}

InitDetect ==
    /\ \E S \in SUBSET Range(Vocabulary) :
          /\ Cardinality(S) <= MaxCols
          /\ columns = ColsOf(Vocabulary, S)
    /\ detections = <<>>
    /\ NormIdle /\ QualityIdle /\ MergerIdle /\ MoreIdle

\* platform, confidence = self.detect_platform(df)
DetectPlatformCall ==
    /\ IF detections = <<>> THEN TRUE ELSE detections[Len(detections)].cols # columns
    /\ detections' = Append(detections,
                            [cols |-> columns,
                             platform |-> DetectPlatform(columns).platform,
                             confidence |-> DetectPlatform(columns).confidence])
    /\ UNCHANGED <<columns, normVars, qualityVars, mergerVars, moreVars>>

\* the caller presents the same columns in another order
PermuteColumns ==
    /\ Len(detections) = 1
    /\ detections[1].cols = columns
    /\ columns' \in Orders(columns) \ {columns}
    /\ UNCHANGED <<detections, normVars, qualityVars, mergerVars, moreVars>>

NextDetect == DetectPlatformCall \/ PermuteColumns

SpecDetect == InitDetect /\ [][NextDetect]_vars

\* C7: detect_platform is order-independent: the same set of column names,
\* in any order, gives the same platform and the same confidence.
C7_DetectOrderIndependent ==
    \A i, j \in 1..Len(detections) :
        Range(detections[i].cols) = Range(detections[j].cols) =>
            /\ detections[i].platform = detections[j].platform
            /\ detections[i].confidence = detections[j].confidence

\* two detections of one column set in two orders, a platform being detected
C7_Witness ==
    /\ Len(detections) = 2
    /\ detections[1].cols # detections[2].cols
    /\ Range(detections[1].cols) = Range(detections[2].cols)
    /\ detections[2].platform # "unknown"

\* the identifiers of the i-th platform that occur in a lower-cased column name
Found(cols, i) ==
    {k \in 1..Len(PLATFORM_MAPPINGS[i].identifiers) :
        \E c \in 1..Len(cols) : Contains(Lower(cols[c]), PLATFORM_MAPPINGS[i].identifiers[k])}

\* the platform named p, as an index of PLATFORM_MAPPINGS
IndexOf(p) == CHOOSE i \in 1..Len(PLATFORM_MAPPINGS) : PLATFORM_MAPPINGS[i].platform = p

\* C8: a platform's score is the fraction of its identifiers found in some
\* lower-cased column name; the result is a platform of highest score with
\* that score, or ('unknown', 0) when the highest score is below 0.2; hence
\* the confidence is 0 or lies in [0.2, 1].
C8_DetectScoringRule ==
    \A x \in 1..Len(detections) :
        LET d == detections[x]
            P == 1..Len(PLATFORM_MAPPINGS)
            \* score of platform i is f[i] / t[i]
            f == [i \in P |-> Cardinality(Found(d.cols, i))]
            t == [i \in P |-> Len(PLATFORM_MAPPINGS[i].identifiers)]
            Highest(i) == \A j \in P : f[j] * t[i] <= f[i] * t[j]
        IN /\ IF \E i \in P : Highest(i) /\ 5 * f[i] < t[i]
              THEN d.platform = "unknown" /\ d.confidence = Whole(0)
              ELSE /\ d.platform \in {PLATFORM_MAPPINGS[i].platform : i \in P}
                   /\ Highest(IndexOf(d.platform))
                   /\ d.confidence.n * t[IndexOf(d.platform)]
                          = f[IndexOf(d.platform)] * d.confidence.d
           /\ \/ d.confidence = Whole(0)
              \/ /\ 5 * d.confidence.n >= d.confidence.d
                 /\ d.confidence.n <= d.confidence.d

\* a detection that names a platform, and whose score another platform ties
C8_Witness ==
    \E x \in 1..Len(detections) :
        /\ detections[x].platform = "meta_ads"
        /\ Cardinality(Found(detections[x].cols, 2)) * 3
              = Cardinality(Found(detections[x].cols, 4)) * 6

\* the example table of C9
ExampleColumns ==
    << <<"C", "a", "m", "p", "a", "i", "g", "n">>, <<"C", "l", "i", "c", "k", "s">>,
       <<"I", "m", "p", "r", "e", "s", "s", "i", "o", "n", "s">>, <<"C", "o", "s", "t">> >>

\* C9 as claimed: the table with columns Campaign, Clicks, Impressions, Cost
\* is reported as platform 'unknown' with confidence 0.
C9_ExampleUnknown ==
    \A x \in 1..Len(detections) :
        Range(detections[x].cols) = Range(ExampleColumns) =>
            detections[x].platform = "unknown" /\ detections[x].confidence = Whole(0)

\* C9 as amended: the table with columns Campaign, Clicks, Impressions, Cost
\* is reported as google_ads with confidence 4/7 (four of the seven
\* google_ads identifiers occur in its column names).
C9_ExampleGoogleAds ==
    \A x \in 1..Len(detections) :
        Range(detections[x].cols) = Range(ExampleColumns) =>
            detections[x].platform = "google_ads" /\ detections[x].confidence = Num(4, 7)

\* the example table has been detected
C9_Witness ==
    \E x \in 1..Len(detections) : detections[x].cols = ExampleColumns

-----------------------------------------------------------------------------
(* DataQualityService.check_quality and its five checks.  A check returns  *)
(* [issues, warnings, penalty]: issues and warnings are the tags of the    *)
(* messages appended, penalty is a float.                                  *)

FAdd(a, b) == Num(a.n * b.d + b.n * a.d, a.d * b.d)
FSub(a, b) == Num(a.n * b.d - b.n * a.d, a.d * b.d)
FMin(a, b) == IF NumLeq(a, b) THEN a ELSE b
FMax(a, b) == IF NumLeq(a, b) THEN b ELSE a

\* cell < x and cell > x for a number x: False on NaN, as float comparison is
CellLess(c, x) == (IsNum(c) /\ NumLess(c, x)) \/ (IsInf(c) /\ c.n < 0)
CellGreater(c, x) == (IsNum(c) /\ NumLess(x, c)) \/ (IsInf(c) /\ c.n > 0)

\* the number of rows of t that satisfy P
CountRows(t, P(_)) == Cardinality({r \in 1..NRows(t) : P(t.rows[r])})

\* df[col].isna().sum()
Missing(t, col) == CountRows(t, LAMBDA row : IsNull(row[col]))

\* the sum of f[x] over the set S
RECURSIVE SumOver(_, _)
SumOver(S, f) ==
    IF S = {} THEN 0
    ELSE LET x == CHOOSE y \in S : TRUE IN f[x] + SumOver(S \ {x}, f)

\* df.isna().sum().sum()
MissingCells(t) == SumOver(Range(t.cols), [c \in Range(t.cols) |-> Missing(t, c)])

\* df.duplicated().sum(): the rows equal to an earlier row
Duplicates(t) ==
    Cardinality({r \in 1..NRows(t) : \E q \in 1..(r - 1) : t.rows[q] = t.rows[r]})

\* min(cap, count / len(df) * factor)
Capped(cap, count, t, factor) == FMin(Whole(cap), Num(count * factor, NRows(t)))

critical_cols == <<"campaign_name", "date", "spend">>

\* the loop over critical_cols from its i-th entry on: penalty added, issues
RECURSIVE CriticalPenalty(_, _)
CriticalPenalty(t, i) ==
    IF i > Len(critical_cols) THEN [penalty |-> Whole(0), issues |-> <<>>]
    ELSE LET col == critical_cols[i]
             rest == CriticalPenalty(t, i + 1)
         IN IF HasCol(t, col) /\ Missing(t, col) > 0
            THEN [penalty |-> FAdd(Capped(20, Missing(t, col), t, 100), rest.penalty),
                  issues |-> <<"critical_missing">> \o rest.issues]
            ELSE rest

\* completeness_ratio = 1 - missing_cells / total_cells
CompletenessRatio(t) ==
    FSub(Whole(1), Num(MissingCells(t), NRows(t) * Len(t.cols)))

\* _check_completeness
CheckCompleteness(t) ==
    LET crit == CriticalPenalty(t, 1)
        low == NumLess(CompletenessRatio(t), Num(95, 100))
    IN [issues |-> crit.issues \o (IF low THEN <<"low_completeness">> ELSE <<>>),
        warnings |-> <<>>,
        penalty |-> IF low
                    THEN FAdd(crit.penalty,
                              FMul(FSub(Whole(1), CompletenessRatio(t)), Whole(100)))
                    ELSE crit.penalty]

\* _check_uniqueness
CheckUniqueness(t) ==
    LET duplicates == Duplicates(t)
        unique_campaigns == Cardinality({t.rows[r]["campaign_name"] : r \in 1..NRows(t)}
                                        \ {Null})
    IN [issues |-> <<>>,
        warnings |-> (IF duplicates > 0 THEN <<"duplicate_rows">> ELSE <<>>)
                     \o (IF HasCol(t, "campaign_name") /\ unique_campaigns < 2
                         THEN <<"few_campaigns">> ELSE <<>>),
        penalty |-> IF duplicates > 0 THEN Capped(10, duplicates, t, 50) ELSE Whole(0)]

\* one validity test: the rows of column col that satisfy Bad cost up to cap
ValidityPenalty(t, col, Bad(_), cap) ==
    LET bad == IF HasCol(t, col) THEN CountRows(t, LAMBDA row : Bad(row[col])) ELSE 0
    IN IF bad > 0 THEN Capped(cap, bad, t, 100) ELSE Whole(0)

ValidityIssue(t, col, Bad(_), tag) ==
    IF HasCol(t, col) /\ CountRows(t, LAMBDA row : Bad(row[col])) > 0
    THEN <<tag>> ELSE <<>>

\* ANOMALY_THRESHOLDS['ctr_range']
ctr_range == <<Whole(0), Whole(50)>>

BadCtr(c) == CellLess(c, ctr_range[1]) \/ CellGreater(c, ctr_range[2])
Negative(c) == CellLess(c, Whole(0))

\* _check_validity
CheckValidity(t) ==
    [issues |-> ValidityIssue(t, "ctr", BadCtr, "invalid_ctr")
                \o ValidityIssue(t, "spend", Negative, "negative_spend")
                \o ValidityIssue(t, "impressions", Negative, "negative_impressions")
                \o ValidityIssue(t, "clicks", Negative, "negative_clicks")
                \o ValidityIssue(t, "conversions", Negative, "negative_conversions"),
     warnings |-> <<>>,
     penalty |-> FAdd(ValidityPenalty(t, "ctr", BadCtr, 10),
                 FAdd(ValidityPenalty(t, "spend", Negative, 15),
                 FAdd(ValidityPenalty(t, "impressions", Negative, 5),
                 FAdd(ValidityPenalty(t, "clicks", Negative, 5),
                      ValidityPenalty(t, "conversions", Negative, 5)))))]

\* clicks > impressions as the float comparison of two cells
ClicksExceed(row) ==
    \/ IsNum(row["clicks"]) /\ IsNum(row["impressions"])
          /\ NumLess(row["impressions"], row["clicks"])
    \/ IsInf(row["clicks"]) /\ row["clicks"].n > 0 /\ IsNum(row["impressions"])
    \/ IsNum(row["clicks"]) /\ IsInf(row["impressions"]) /\ row["impressions"].n < 0

\* |ctr - (clicks / impressions * 100).fillna(0)| > 1
CtrDiverges(row) ==
    LET calc == FMul(FDiv(row["clicks"], row["impressions"]), Whole(100))
        calculated_ctr == IF IsNull(calc) THEN Whole(0) ELSE calc
    IN IF IsNull(row["ctr"]) THEN FALSE
       ELSE IF IsInf(row["ctr"]) \/ IsInf(calculated_ctr)
            THEN row["ctr"] # calculated_ctr
       ELSE \/ NumLess(Whole(1), FSub(row["ctr"], calculated_ctr))
            \/ NumLess(Whole(1), FSub(calculated_ctr, row["ctr"]))

\* _check_consistency without the cap of 15 on the penalty
CheckConsistencyUncapped(t) ==
    LET inconsistent == IF HasCol(t, "clicks") /\ HasCol(t, "impressions")
                        THEN CountRows(t, ClicksExceed) ELSE 0
    IN [issues |-> IF inconsistent > 0 THEN <<"clicks_exceed_impressions">> ELSE <<>>,
        warnings |-> <<>>,
        penalty |-> Num(inconsistent * 100, NRows(t))]

\* _check_consistency
CheckConsistency(t) ==
    LET both == HasCol(t, "clicks") /\ HasCol(t, "impressions")
        inconsistent == IF both THEN CountRows(t, ClicksExceed) ELSE 0
        inconsistent_ctr == IF both /\ HasCol(t, "ctr") THEN CountRows(t, CtrDiverges) ELSE 0
    IN [issues |-> IF inconsistent > 0 THEN <<"clicks_exceed_impressions">> ELSE <<>>,
        warnings |-> IF inconsistent_ctr > 0 THEN <<"inconsistent_ctr">> ELSE <<>>,
        penalty |-> IF inconsistent > 0 THEN Capped(15, inconsistent, t, 100) ELSE Whole(0)]

\* _check_timeliness: it only warns (future dates, dates older than two
\* years, unparseable dates, all relative to the clock) and never adds to
\* the penalty
CheckTimeliness(t) == [issues |-> <<>>, warnings |-> <<>>, penalty |-> Whole(0)]

\* _calculate_grade
CalculateGrade(score) ==
    IF NumLeq(Whole(95), score) THEN "A+"
    ELSE IF NumLeq(Whole(90), score) THEN "A"
    ELSE IF NumLeq(Whole(85), score) THEN "B+"
    ELSE IF NumLeq(Whole(80), score) THEN "B"
    ELSE IF NumLeq(Whole(70), score) THEN "C"
    ELSE IF NumLeq(Whole(60), score) THEN "D"
    ELSE "F"

\* check_quality without the floor of the score at 0
CheckQualityNoFloor(t) ==
    LET checks == [completeness |-> CheckCompleteness(t),
                   uniqueness |-> CheckUniqueness(t),
                   validity |-> CheckValidity(t),
                   consistency |-> CheckConsistency(t),
                   timeliness |-> CheckTimeliness(t)]
        score == FSub(FSub(FSub(FSub(FSub(Whole(100), checks.completeness.penalty),
                                     checks.uniqueness.penalty),
                                checks.validity.penalty),
                           checks.consistency.penalty),
                      checks.timeliness.penalty)
    IN [total_rows |-> NRows(t), total_columns |-> Len(t.cols), checks |-> checks,
        issues |-> <<>>, warnings |-> <<>>, score |-> score,
        grade |-> CalculateGrade(score)]

\* check_quality: the report
CheckQuality(t) ==
    LET checks == [completeness |-> CheckCompleteness(t),
                   uniqueness |-> CheckUniqueness(t),
                   validity |-> CheckValidity(t),
                   consistency |-> CheckConsistency(t),
                   timeliness |-> CheckTimeliness(t)]
        raw == FSub(FSub(FSub(FSub(FSub(Whole(100), checks.completeness.penalty),
                                   checks.uniqueness.penalty),
                              checks.validity.penalty),
                         checks.consistency.penalty),
                    checks.timeliness.penalty)
        score == FMax(Whole(0), raw)
    IN [total_rows |-> NRows(t),
        total_columns |-> Len(t.cols),
        checks |-> checks,
        issues |-> checks.completeness.issues \o checks.uniqueness.issues
                   \o checks.validity.issues \o checks.consistency.issues
                   \o checks.timeliness.issues,
        warnings |-> checks.completeness.warnings \o checks.uniqueness.warnings
                     \o checks.validity.warnings \o checks.consistency.warnings
                     \o checks.timeliness.warnings,
        score |-> score,
        grade |-> CalculateGrade(score)]

-----------------------------------------------------------------------------
(* SpecQuality: check_quality on a table, then on the table with some      *)
(* non-null cells of its critical columns replaced by null.                *)

\* the largest number of cells replaced by null between two checks
MaxNulled == 2

\* the largest number of rows of the tables of the clicks and impressions
\* columns alone: enough for a penalty below its cap of 15
MaxLongRows == 7

QualitySchemas ==
    { <<"campaign_name", "spend", "clicks", "impressions">>, <<"date", "spend">> }

QualityDom ==
    [c \in {"campaign_name", "date", "spend", "clicks", "impressions"} |->
        CASE c = "campaign_name" -> {Null, Str("A")}
          [] c = "date" -> {Null, Str("2024-01-01")}
          [] c = "spend" -> {Null, Whole(-1), Whole(1)}
          [] c = "clicks" -> {Whole(-1), Whole(MaxVal)}
          [] c = "impressions" -> {Whole(1)}]

InitQuality ==
    /\ qdf \in UNION {Tables(cs, QualityDom, 1, MaxRows) : cs \in QualitySchemas}
                \cup Tables(<<"clicks", "impressions">>, QualityDom, 1, MaxLongRows)
    /\ qInputs = <<>>
    /\ quality_reports = <<>>
    /\ NormIdle /\ IngestIdle /\ MergerIdle /\ MoreIdle

\* report = check_quality(df); self.quality_reports.append(report)
CheckQualityCall ==
    /\ IF qInputs = <<>> THEN TRUE
       ELSE Len(qInputs) = 1 /\ qInputs[1] # qdf
    /\ quality_reports' = Append(quality_reports, CheckQuality(qdf))
    /\ qInputs' = Append(qInputs, qdf)
    /\ UNCHANGED <<qdf, normVars, ingestVars, mergerVars, moreVars>>

\* the cells in which tables a and b of one shape differ
Differing(a, b) ==
    {rc \in (1..NRows(a)) \X Range(a.cols) : a.rows[rc[1]][rc[2]] # b.rows[rc[1]][rc[2]]}

\* between two checks, a non-null cell of a critical column becomes null
NullCriticalCell ==
    /\ Len(qInputs) = 1
    /\ Cardinality(Differing(qdf, qInputs[1])) < MaxNulled
    /\ \E r \in 1..NRows(qdf) : \E c \in Range(critical_cols) \cap Range(qdf.cols) :
          /\ ~IsNull(qdf.rows[r][c])
          /\ qdf' = [qdf EXCEPT !.rows[r][c] = Null]
    /\ UNCHANGED <<qInputs, quality_reports, normVars, ingestVars, mergerVars, moreVars>>

NextQuality == CheckQualityCall \/ NullCriticalCell

SpecQuality == InitQuality /\ [][NextQuality]_vars

\* table b is table a with one or more non-null critical cells made null
MoreMissing(b, a) ==
    /\ b.cols = a.cols /\ NRows(b) = NRows(a)
    /\ b # a
    /\ \A rc \in Differing(a, b) :
          /\ rc[2] \in Range(critical_cols)
          /\ IsNull(b.rows[rc[1]][rc[2]])

\* C10: the quality score is monotonic in missing critical values: a table
\* with more null cells in campaign_name, date or spend never scores higher.
C10_ScoreMonotonic ==
    \A i, j \in 1..Len(quality_reports) :
        MoreMissing(qInputs[j], qInputs[i]) =>
            NumLeq(quality_reports[j].score, quality_reports[i].score)

-----------------------------------------------------------------------------
(* DataMergerService.  _find_column compares names case-insensitively, so  *)
(* each column name of an aggregated table has its spelling, on which      *)
(* lower() is computed.                                                    *)

\* the characters of the column names that the aggregated tables draw from
Spelling(c) ==
     CASE c = "campaign_name" -> <<"c", "a", "m", "p", "a", "i", "g", "n", "_", "n", "a", "m", "e">>
      [] c = "Campaign" -> <<"C", "a", "m", "p", "a", "i", "g", "n">>
      [] c = "platform" -> <<"p", "l", "a", "t", "f", "o", "r", "m">>
      [] c = "Source" -> <<"S", "o", "u", "r", "c", "e">>
      [] c = "spend" -> <<"s", "p", "e", "n", "d">>
      [] c = "conversions" -> <<"c", "o", "n", "v", "e", "r", "s", "i", "o", "n", "s">>
      [] c = "conversion_value" -> <<"c", "o", "n", "v", "e", "r", "s", "i", "o", "n", "_", "v", "a", "l", "u", "e">>
      [] c = "roas" -> <<"r", "o", "a", "s">>
      [] c = "clicks" -> <<"c", "l", "i", "c", "k", "s">>
      [] c = "impressions" -> <<"i", "m", "p", "r", "e", "s", "s", "i", "o", "n", "s">>
      [] c = "ctr" -> <<"c", "t", "r">>
      [] c = "cpa" -> <<"c", "p", "a">>
      [] c = "date" -> <<"d", "a", "t", "e">>
      [] c = "Date" -> <<"D", "a", "t", "e">>
      [] c = "day" -> <<"d", "a", "y">>
      [] c = "cpc" -> <<"c", "p", "c">>
      [] c = "cpm" -> <<"c", "p", "m">>
      [] c = "period" -> <<"p", "e", "r", "i", "o", "d">>

CAMPAIGN_COLUMN_CANDIDATES ==
    << <<"c", "a", "m", "p", "a", "i", "g", "n">>,
       <<"c", "a", "m", "p", "a", "i", "g", "n", "_", "n", "a", "m", "e">>,
       <<"c", "a", "m", "p", "a", "i", "g", "n", " ", "n", "a", "m", "e">>,
       <<"c", "a", "m", "p", "a", "i", "g", "n", " ", "i", "d">> >>

PLATFORM_COLUMN_CANDIDATES ==
    << <<"p", "l", "a", "t", "f", "o", "r", "m">>,
       <<"s", "o", "u", "r", "c", "e">>,
       <<"c", "h", "a", "n", "n", "e", "l">>,
       <<"a", "d", "_", "p", "l", "a", "t", "f", "o", "r", "m">> >>

\* df_cols_lower = {col.lower(): col ...}[k]: the last column spelled k in
\* lower case, "" when there is none
ColsLower(t, k) ==
    LET I == {i \in 1..Len(t.cols) : Lower(Spelling(t.cols[i])) = k}
    IN IF I = {} THEN ""
       ELSE t.cols[CHOOSE i \in I : \A j \in I : j <= i]

\* _find_column: the column of the first candidate that the table has, ""
\* for None
RECURSIVE FindColumn(_, _, _)
FindColumn(t, candidates, i) ==
    IF i > Len(candidates) THEN ""
    ELSE IF ColsLower(t, Lower(candidates[i])) # ""
         THEN ColsLower(t, Lower(candidates[i]))
    ELSE FindColumn(t, candidates, i + 1)

\* df.rename(columns={old: new})
Rename(t, old, new) ==
    LET NewName(c) == IF c = old THEN new ELSE c
        OldName(c) == IF c = new THEN old ELSE c
    IN [cols |-> [i \in 1..Len(t.cols) |-> NewName(t.cols[i])],
        rows |-> [r \in 1..NRows(t) |->
                    [c \in {NewName(x) : x \in Range(t.cols)} |-> t.rows[r][OldName(c)]]]]

\* the strings of the group keys in the order in which Python sorts them
SortedNames ==
    <<"01-02-2024", "2024-02-01", "A", "B", "Brand_Search", "Google Ads", "google",
      "google_ads", "linkedin_ads", "meta", "meta_ads", "tiktok_ads", "unknown">>

\* the rank of a key cell: its position in SortedNames, or its day, week or
\* month number
NameRank(c) ==
    IF c.k = "str" THEN CHOOSE i \in 1..Len(SortedNames) : SortedNames[i] = c.s
    ELSE c.n

\* key a sorts before key b: tuples of strings compare column by column
RECURSIVE KeyBefore(_, _, _, _)
KeyBefore(a, b, by, i) ==
    IF i > Len(by) THEN FALSE
    ELSE IF NameRank(a[by[i]]) # NameRank(b[by[i]])
         THEN NameRank(a[by[i]]) < NameRank(b[by[i]])
    ELSE KeyBefore(a, b, by, i + 1)

\* the keys of a set in sorted order
RECURSIVE SortKeys(_, _)
SortKeys(K, by) ==
    IF K = {} THEN <<>>
    ELSE LET first == CHOOSE a \in K : \A b \in K \ {a} : KeyBefore(a, b, by, 1)
         IN <<first>> \o SortKeys(K \ {first}, by)

\* the group keys of groupby(by): rows with a null key cell are left out
GroupKeys(t, by) ==
    {Project(t.rows[r], by) : r \in {x \in 1..NRows(t) :
                                      \A c \in Range(by) : ~IsNull(t.rows[x][c])}}

\* the non-null cells of column col in the rows of the group, from row i on
RECURSIVE GroupCells(_, _, _, _, _)
GroupCells(t, by, key, col, i) ==
    IF i > NRows(t) THEN <<>>
    ELSE (IF Project(t.rows[i], by) = key /\ ~IsNull(t.rows[i][col])
          THEN <<t.rows[i][col]>> ELSE <<>>) \o GroupCells(t, by, key, col, i + 1)

\* the sum of a sequence of numbers
RECURSIVE FSum(_)
FSum(cells) == IF cells = <<>> THEN Whole(0) ELSE FAdd(Head(cells), FSum(Tail(cells)))

\* 'sum' skips NaN and gives 0 for a group without numbers
AggSum(t, by, key, col) == FSum(GroupCells(t, by, key, col, 1))

\* 'mean' skips NaN and gives NaN for a group without numbers
AggMean(t, by, key, col) ==
    LET cells == GroupCells(t, by, key, col, 1)
    IN IF cells = <<>> THEN Null ELSE FDiv(FSum(cells), Whole(Len(cells)))

\* df.groupby(by).agg({sum columns: 'sum', mean columns: 'mean'}).reset_index()
GroupByAgg(t, by, sums, means) ==
    LET keys == SortKeys(GroupKeys(t, by), by)
    IN [cols |-> by \o sums \o means,
        rows |-> [g \in 1..Len(keys) |->
                    [c \in Range(by) \cup Range(sums) \cup Range(means) |->
                        IF c \in Range(by) THEN keys[g][c]
                        ELSE IF c \in Range(sums) THEN AggSum(t, by, keys[g], c)
                        ELSE AggMean(t, by, keys[g], c)]]]

sum_cols == <<"impressions", "clicks", "spend", "conversions", "conversion_value">>
avg_cols == <<"ctr", "cpc", "cpm", "roas">>

\* groupby(...).agg({}): with no column to aggregate pandas finds nothing to
\* concatenate, and the ValueError leaves the method
NoObjects == [success |-> FALSE, raised |-> "ValueError: No objects to concatenate"]

\* agg_dict is empty: the table has none of the columns summed or averaged
EmptyAggDict(t, sums, means) == \A c \in Range(sums) \cup Range(means) : ~HasCol(t, c)


\* grouped['clicks'] / grouped['impressions'] * 100, rounded
AggCtr(row) == Round(FMul(FDiv(row["clicks"], row["impressions"]), Whole(100)), 4)
\* grouped['spend'] / grouped['conversions'].replace(0, np.nan), rounded
AggCpa(row) == Round(FDiv(row["spend"], ReplaceZero(row["conversions"])), 4)
\* grouped['conversion_value'] / grouped['spend'].replace(0, np.nan), rounded
AggRoas(row) == Round(FDiv(row["conversion_value"], ReplaceZero(row["spend"])), 4)

\* the column found among the candidates, renamed to its standard name
Standardize(t, candidates, name) ==
    LET col == FindColumn(t, candidates, 1)
    IN IF col # "" /\ col # name THEN Rename(t, col, name) ELSE t

\* the columns grouped by: the platform joins the campaign when the breakdown
\* is asked for and the table has a platform column
GroupBy(t, include_platform_breakdown) ==
    IF include_platform_breakdown
       /\ (FindColumn(t, PLATFORM_COLUMN_CANDIDATES, 1) # "" \/ HasCol(t, "platform"))
    THEN <<"campaign_name", "platform">> ELSE <<"campaign_name">>

\* grouped, for a table whose campaign column has its standard name
Grouped(t, include_platform_breakdown) ==
    GroupByAgg(IF include_platform_breakdown
               THEN Standardize(t, PLATFORM_COLUMN_CANDIDATES, "platform") ELSE t,
               GroupBy(t, include_platform_breakdown),
               SelectSeq(sum_cols, LAMBDA c : HasCol(t, c)),
               SelectSeq(avg_cols, LAMBDA c : HasCol(t, c)))

\* if a in grouped.columns and b in grouped.columns: grouped[col] = F
Recalculate(grouped, col, a, b, F(_)) ==
    IF HasCol(grouped, a) /\ HasCol(grouped, b) THEN SetColumn(grouped, col, F)
    ELSE grouped

\* the dict returned for the table grouped
Success(grouped) ==
    [success |-> TRUE, data |-> grouped,
     total_campaigns |->
         Cardinality({grouped.rows[g]["campaign_name"] : g \in 1..NRows(grouped)})]

\* aggregate_by_campaign
AggregateByCampaign(t, include_platform_breakdown) ==
    IF FindColumn(t, CAMPAIGN_COLUMN_CANDIDATES, 1) = ""
    THEN [success |-> FALSE, error |-> "No campaign column found"]
    ELSE IF EmptyAggDict(t, sum_cols, avg_cols) THEN NoObjects
    ELSE Success(
           Recalculate(
             Recalculate(
               Recalculate(
                 Grouped(Standardize(t, CAMPAIGN_COLUMN_CANDIDATES, "campaign_name"),
                         include_platform_breakdown),
                 "ctr", "clicks", "impressions", AggCtr),
               "cpa", "spend", "conversions", AggCpa),
             "roas", "conversion_value", "spend", AggRoas))

-----------------------------------------------------------------------------
(* SpecAggregate: aggregate_by_campaign on a table, with and without the   *)
(* platform breakdown.                                                     *)

AggregateSchemas ==
    << <<"campaign_name", "spend", "conversions", "conversion_value">>,
       <<"Campaign", "Source", "spend", "roas">>,
       <<"campaign_name", "platform", "clicks", "impressions", "ctr">>,
       <<"campaign_name", "conversions", "cpa">>,
       <<"spend", "conversions">> >>

AggregateDom ==
    [c \in UNION {Range(AggregateSchemas[i]) : i \in 1..Len(AggregateSchemas)} |->
        CASE c = "campaign_name" -> {Str("A"), Str("B")}
          [] c = "Campaign" -> {Null, Str("A")}
          [] c \in {"platform", "Source"} -> {Str("google"), Str("meta")}
          [] c = "spend" -> {Null, Whole(0), Whole(100)}
          [] c \in {"ctr", "cpa"} -> {Whole(1)}
          [] c = "roas" -> {Null, Whole(2)}
          [] OTHER -> {Whole(0), Whole(1)}]

InitAggregate ==
    /\ adf \in UNION {Tables(AggregateSchemas[i], AggregateDom, 1, MaxRows) :
                         i \in 1..Len(AggregateSchemas)}
    /\ aggregated = <<>>
    /\ NormIdle /\ IngestIdle /\ QualityIdle /\ MoreIdle

\* result = aggregate_by_campaign(df, include_platform_breakdown), each way once
AggregateByCampaignCall ==
    /\ Len(aggregated) < MaxCalls
    /\ \E include_platform_breakdown \in BOOLEAN :
          /\ \A k \in 1..Len(aggregated) :
                aggregated[k].include_platform_breakdown # include_platform_breakdown
          /\ aggregated' = Append(aggregated,
                [include_platform_breakdown |-> include_platform_breakdown,
                 result |-> AggregateByCampaign(adf, include_platform_breakdown)])
    /\ UNCHANGED <<adf, normVars, ingestVars, qualityVars, moreVars>>

NextAggregate == AggregateByCampaignCall

SpecAggregate == InitAggregate /\ [][NextAggregate]_vars

\* P holds of every group of every table that aggregate_by_campaign returned
EveryGroup(P(_, _)) ==
    \A k \in 1..Len(aggregated) :
        aggregated[k].result.success =>
            \A g \in 1..NRows(aggregated[k].result.data) :
                P(aggregated[k].result.data, aggregated[k].result.data.rows[g])

\* C3: every group whose summed conversions is 0 has a null cpa, and every
\* group whose summed spend is 0 has a null roas (a column that the output
\* does not have counts as null).
C3_ZeroDenominatorNullGroups ==
    EveryGroup(LAMBDA data, row :
        /\ (HasCol(data, "conversions") /\ IsZero(row["conversions"]) /\ HasCol(data, "cpa"))
              => IsNull(row["cpa"])
        /\ (HasCol(data, "spend") /\ IsZero(row["spend"]) /\ HasCol(data, "roas"))
              => IsNull(row["roas"]))

\* C3 (amended): when the output has spend and conversions, it has cpa, and
\* cpa is null in every group whose summed conversions is 0; when it has
\* conversion_value and spend, it has roas, and roas is null in every group
\* whose summed spend is 0; without both spend and conversions the output
\* has no cpa.
C3_ZeroDenominatorNullWhenRecomputed ==
    EveryGroup(LAMBDA data, row :
        /\ (HasCol(data, "spend") /\ HasCol(data, "conversions"))
              => /\ HasCol(data, "cpa")
                 /\ IsZero(row["conversions"]) => IsNull(row["cpa"])
        /\ (HasCol(data, "conversion_value") /\ HasCol(data, "spend"))
              => /\ HasCol(data, "roas")
                 /\ IsZero(row["spend"]) => IsNull(row["roas"])
        /\ ~(HasCol(data, "spend") /\ HasCol(data, "conversions"))
              => ~HasCol(data, "cpa"))

\* one returned table has a group with spend 100, no conversions and a null
\* cpa, and a group with no spend, a conversion value and a null roas
C3_Witness ==
    \E k \in 1..Len(aggregated) :
        /\ aggregated[k].result.success
        /\ LET data == aggregated[k].result.data
           IN /\ HasCol(data, "cpa") /\ HasCol(data, "roas")
              /\ \E g \in 1..NRows(data) :
                    /\ data.rows[g]["spend"] = Whole(100)
                    /\ IsZero(data.rows[g]["conversions"])
                    /\ IsNull(data.rows[g]["cpa"])
              /\ \E g \in 1..NRows(data) :
                    /\ IsZero(data.rows[g]["spend"])
                    /\ data.rows[g]["conversion_value"] = Whole(1)
                    /\ IsNull(data.rows[g]["roas"])

-----------------------------------------------------------------------------
(* The consistency check and the score of the reports of SpecQuality. *)

\* the rows of t in which clicks is greater than impressions
Offending(t) ==
    IF HasCol(t, "clicks") /\ HasCol(t, "impressions")
    THEN {r \in 1..NRows(t) : /\ IsNum(t.rows[r]["clicks"])
                              /\ IsNum(t.rows[r]["impressions"])
                              /\ t.rows[r]["clicks"].n * t.rows[r]["impressions"].d
                                   > t.rows[r]["impressions"].n * t.rows[r]["clicks"].d}
    ELSE {}

\* C11: a table with at least one row where clicks > impressions gets a
\* consistency issue and the penalty p = min(15, 100 * offending / total),
\* 0 < p <= 15; a table with no such row gets the consistency penalty 0.
C11_ConsistencyPenalty ==
    \A k \in 1..Len(quality_reports) :
        LET off == Cardinality(Offending(qInputs[k]))
            c == quality_reports[k].checks.consistency
        IN IF off > 0
           THEN /\ c.issues = <<"clicks_exceed_impressions">>
                /\ c.penalty = FMin(Whole(15), Num(100 * off, NRows(qInputs[k])))
                /\ NumLess(Whole(0), c.penalty) /\ NumLeq(c.penalty, Whole(15))
           ELSE c.issues = <<>> /\ c.penalty = Whole(0)

\* a report with offending rows whose consistency penalty lies below the cap
C11_Witness ==
    \E k \in 1..Len(quality_reports) :
        /\ Offending(qInputs[k]) # {}
        /\ NumLess(Whole(0), quality_reports[k].checks.consistency.penalty)
        /\ NumLess(quality_reports[k].checks.consistency.penalty, Whole(15))

\* the penalties of the five checks of a report
Penalties(report) ==
    <<report.checks.completeness.penalty, report.checks.uniqueness.penalty,
      report.checks.validity.penalty, report.checks.consistency.penalty,
      report.checks.timeliness.penalty>>

\* C12: the score of a report is max(0, 100 - the sum of the five checks'
\* penalties), every penalty is >= 0, and 0 <= score <= 100.
C12_ScoreFormula ==
    \A k \in 1..Len(quality_reports) :
        LET report == quality_reports[k]
            total == FSum(Penalties(report))
        IN /\ \A i \in 1..5 : NumLeq(Whole(0), Penalties(report)[i])
           /\ report.score = (IF NumLeq(total, Whole(100))
                              THEN FSub(Whole(100), total) ELSE Whole(0))
           /\ NumLeq(Whole(0), report.score) /\ NumLeq(report.score, Whole(100))

\* a report whose penalties add up to more than 100, with the score 0
C12_Witness ==
    \E k \in 1..Len(quality_reports) :
        /\ NumLess(Whole(100), FSum(Penalties(quality_reports[k])))
        /\ quality_reports[k].score = Whole(0)

-----------------------------------------------------------------------------
(* aggregate_by_date.  A date string has its characters, from which        *)
(* pd.to_datetime(dayfirst=True, errors='coerce') computes the day; a      *)
(* parsed date is the cell [k |-> "date", n |-> year*10000+month*100+day]. *)

DATE_COLUMN_CANDIDATES ==
    << <<"d", "a", "t", "e">>,
       <<"d", "a", "y">>,
       <<"r", "e", "p", "o", "r", "t", "_", "d", "a", "t", "e">>,
       <<"s", "t", "a", "t", "_", "d", "a", "y", "s">>,
       <<"s", "t", "a", "r", "t", " ", "d", "a", "t", "e">>,
       <<"e", "n", "d", " ", "d", "a", "t", "e">> >>

\* the characters of the date strings that the tables draw from
DateSpelling(t) ==
    CASE t = "01-02-2024" -> <<"0", "1", "-", "0", "2", "-", "2", "0", "2", "4">>
      [] t = "02-02-2024" -> <<"0", "2", "-", "0", "2", "-", "2", "0", "2", "4">>
      [] t = "12-02-2024" -> <<"1", "2", "-", "0", "2", "-", "2", "0", "2", "4">>
      [] t = "n/a" -> <<"n", "/", "a">>
      [] t = "2024-02-01" -> <<"2", "0", "2", "4", "-", "0", "2", "-", "0", "1">>
      [] t = "2024-02-02" -> <<"2", "0", "2", "4", "-", "0", "2", "-", "0", "2">>
      [] t = "01/02/2024" -> <<"0", "1", "/", "0", "2", "/", "2", "0", "2", "4">>
      [] t = "13/02/2024" -> <<"1", "3", "/", "0", "2", "/", "2", "0", "2", "4">>
      [] t = "1 Feb 2024" -> <<"1", " ", "F", "e", "b", " ", "2", "0", "2", "4">>

Digits == <<"0", "1", "2", "3", "4", "5", "6", "7", "8", "9">>
IsDigits(w) == w # <<>> /\ \A i \in 1..Len(w) : w[i] \in Range(Digits)
DigitValue(ch) == (CHOOSE i \in 1..10 : Digits[i] = ch) - 1

\* int(w) for a string of digits
RECURSIVE ParseInt(_)
ParseInt(w) ==
    IF w = <<>> THEN 0
    ELSE 10 * ParseInt(SubSeq(w, 1, Len(w) - 1)) + DigitValue(w[Len(w)])

\* w.split('-')
RECURSIVE Split(_)
Split(w) ==
    IF \A i \in 1..Len(w) : w[i] # "-" THEN <<w>>
    ELSE LET i == CHOOSE j \in 1..Len(w) : w[j] = "-" /\ \A x \in 1..(j - 1) : w[x] # "-"
         IN <<SubSeq(w, 1, i - 1)>> \o Split(SubSeq(w, i + 1, Len(w)))

IsLeap(y) == (y % 4 = 0 /\ y % 100 # 0) \/ y % 400 = 0
DaysInMonth(y, m) ==
    IF m = 2 THEN (IF IsLeap(y) THEN 29 ELSE 28)
    ELSE IF m \in {4, 6, 9, 11} THEN 30 ELSE 31

DateCell(y, m, d) == [k |-> "date", n |-> y * 10000 + m * 100 + d, d |-> 1, s |-> ""]
YearOf(c) == c.n \div 10000
MonthOf(c) == (c.n \div 100) % 100
DayOf(c) == c.n % 100

\* the date of the fields year, month, day: NaT when they name no day
ValidDate(y, m, d) ==
    IF m \in 1..12 /\ d >= 1 /\ d <= DaysInMonth(y, m) THEN DateCell(y, m, d) ELSE Null

\* pd.to_datetime(dayfirst=True, errors='coerce') on one string: NN-NN-NNNN is
\* day-month-year, anything else here is NaT
ParseDayFirst(w) ==
    LET f == Split(w)
    IN IF Len(f) = 3 /\ (\A i \in 1..3 : IsDigits(f[i]))
          /\ Len(f[1]) = 2 /\ Len(f[2]) = 2 /\ Len(f[3]) = 4
       THEN ValidDate(ParseInt(f[3]), ParseInt(f[2]), ParseInt(f[1]))
       ELSE Null

\* to_datetime on a cell: NaN gives NaT
ToDatetime(c) ==
    IF c.k = "str" THEN ParseDayFirst(DateSpelling(c.s))
    ELSE IF c.k = "date" THEN c
    ELSE Null

\* the days from 1970-01-01 to the date
DaysFromCivil(c) ==
    LET y == IF MonthOf(c) <= 2 THEN YearOf(c) - 1 ELSE YearOf(c)
        era == y \div 400
        yoe == y - era * 400
        mp == (MonthOf(c) + 9) % 12
        doy == (153 * mp + 2) \div 5 + DayOf(c) - 1
        doe == yoe * 365 + yoe \div 4 - yoe \div 100 + doy
    IN era * 146097 + doe - 719468

\* df['period'] for one date: the day, the Monday-to-Sunday week (the day
\* number of its Monday), or the month (year*100+month)
Period(c, date_granularity) ==
    CASE date_granularity = "daily" -> c
      [] date_granularity = "weekly" ->
            [k |-> "week", n |-> DaysFromCivil(c) - ((DaysFromCivil(c) + 3) % 7),
             d |-> 1, s |-> ""]
      [] date_granularity = "monthly" ->
            [k |-> "month", n |-> YearOf(c) * 100 + MonthOf(c), d |-> 1, s |-> ""]


date_sum_cols ==
    <<"impressions", "clicks", "spend", "conversions", "conversion_value", "reach",
      "video_views">>
date_avg_cols == <<"ctr", "cpc", "cpm", "cpa", "roas">>

\* df['date'] = pd.to_datetime(df['date'], ...); df = df.dropna(subset=['date'])
ParseDates(t) ==
    [cols |-> t.cols,
     rows |-> FilterIdx([r \in 1..NRows(t) |->
                            [t.rows[r] EXCEPT !["date"] = ToDatetime(t.rows[r]["date"])]],
                        LAMBDA r : ~IsNull(ToDatetime(t.rows[r]["date"])), 1)]

\* df['period'] = ...
WithPeriod(t, date_granularity) ==
    SetColumn(t, "period", LAMBDA row : Period(row["date"], date_granularity))

\* group_cols: the period, and the platform when the table has one
GroupCols(t) ==
    IF FindColumn(t, PLATFORM_COLUMN_CANDIDATES, 1) # "" \/ HasCol(t, "platform")
    THEN <<"period", "platform">> ELSE <<"period">>

\* aggregated = df.groupby(group_cols).agg(agg_dict).reset_index()
GroupedByDate(t) ==
    GroupByAgg(Standardize(t, PLATFORM_COLUMN_CANDIDATES, "platform"),
               GroupCols(t),
               SelectSeq(date_sum_cols, LAMBDA c : HasCol(t, c)),
               SelectSeq(date_avg_cols, LAMBDA c : HasCol(t, c)))

\* aggregated['spend'] / aggregated['clicks'], rounded
DateCpc(row) == Round(FDiv(row["spend"], row["clicks"]), 4)
\* aggregated['spend'] / aggregated['impressions'] * 1000, rounded
DateCpm(row) == Round(FMul(FDiv(row["spend"], row["impressions"]), Whole(1000)), 4)

\* the dict returned for the table aggregated
DateSuccess(data, date_granularity) ==
    [success |-> TRUE, data |-> data, granularity |-> date_granularity,
     periods |-> Cardinality({data.rows[g]["period"] : g \in 1..NRows(data)})]

\* aggregate_by_date
AggregateByDate(t, date_granularity) ==
    IF FindColumn(t, DATE_COLUMN_CANDIDATES, 1) = ""
    THEN [success |-> FALSE, error |-> "No date column found"]
    ELSE IF date_granularity \notin {"daily", "weekly", "monthly"}
    THEN [success |-> FALSE, error |-> "Unknown granularity"]
    ELSE IF EmptyAggDict(t, date_sum_cols, date_avg_cols) THEN NoObjects
    ELSE DateSuccess(
           Recalculate(
             Recalculate(
               Recalculate(
                 GroupedByDate(
                   WithPeriod(
                     ParseDates(Rename(t, FindColumn(t, DATE_COLUMN_CANDIDATES, 1),
                                       "date")),
                     date_granularity)),
                 "ctr", "clicks", "impressions", AggCtr),
               "cpc", "spend", "clicks", DateCpc),
             "cpm", "spend", "impressions", DateCpm),
           date_granularity)

-----------------------------------------------------------------------------
(* SpecByDate: one aggregate_by_date call on a table, at some granularity. *)

ByDateSchemas ==
    << <<"date", "clicks", "impressions">>,
       <<"Date", "Source", "clicks">>,
       <<"day", "ctr", "clicks">>,
       <<"day", "spend", "clicks", "impressions">>,
       <<"clicks", "impressions">> >>

ByDateDom ==
    [c \in UNION {Range(ByDateSchemas[i]) : i \in 1..Len(ByDateSchemas)} |->
        CASE c = "date" -> {Null, Str("01-02-2024"), Str("02-02-2024"), Str("n/a")}
          [] c = "Date" -> {Str("01-02-2024"), Str("02-02-2024")}
          [] c = "day" -> {Str("01-02-2024"), Str("12-02-2024")}
          [] c = "Source" -> {Null, Str("google"), Str("meta")}
          [] c = "clicks" -> {Whole(0), Whole(10), Whole(20)}
          [] c = "impressions" -> {Whole(0), Whole(100)}
          [] c = "spend" -> {Whole(0), Whole(1)}
          [] c = "ctr" -> {Whole(1), Whole(3)}]

Granularities == {"daily", "weekly", "monthly", "hourly"}

InitByDate ==
    /\ adf \in UNION {Tables(ByDateSchemas[i], ByDateDom, 1, MaxRows) :
                         i \in 1..Len(ByDateSchemas)}
    /\ aggregated = <<>>
    /\ NormIdle /\ IngestIdle /\ QualityIdle /\ MoreIdle

\* result = aggregate_by_date(df, date_granularity)
AggregateByDateCall ==
    /\ aggregated = <<>>
    /\ \E date_granularity \in Granularities :
          aggregated' = <<[date_granularity |-> date_granularity,
                           result |-> AggregateByDate(adf, date_granularity)]>>
    /\ UNCHANGED <<adf, normVars, ingestVars, qualityVars, moreVars>>

NextByDate == AggregateByDateCall

SpecByDate == InitByDate /\ [][NextByDate]_vars

\* the day that a date string of the tables names, read day first
DayFirst(c) ==
    IF c = Str("01-02-2024") THEN DateCell(2024, 2, 1)
    ELSE IF c = Str("02-02-2024") THEN DateCell(2024, 2, 2)
    ELSE IF c = Str("12-02-2024") THEN DateCell(2024, 2, 12)
    ELSE Null

\* the cells of the date column of the table given
DateCells ==
    {adf.rows[r][c] : r \in 1..NRows(adf), c \in Range(adf.cols) \cap {"date", "Date", "day"}}

\* the two rows of the example
ExampleByDate ==
    [cols |-> <<"date", "clicks", "impressions">>,
     rows |-> << [date |-> Str("01-02-2024"), clicks |-> Whole(10),
                  impressions |-> Whole(100)],
                 [date |-> Str("02-02-2024"), clicks |-> Whole(20),
                  impressions |-> Whole(100)] >>]

\* the daily calls that succeeded
DailyResults ==
    {aggregated[k].result : k \in {x \in 1..Len(aggregated) :
        aggregated[x].date_granularity = "daily" /\ aggregated[x].result.success}}

\* C13: daily aggregate_by_date reads numeric dates day first: the example's
\* two rows give exactly the periods 1 Feb 2024 and 2 Feb 2024 with ctr 10
\* and 20, and the number of output periods is the number of distinct parsed
\* dates of the input.
C13_DayFirstPeriods ==
    \A result \in DailyResults :
        /\ adf = ExampleByDate =>
              /\ NRows(result.data) = 2
              /\ result.data.rows[1]["period"] = DateCell(2024, 2, 1)
              /\ result.data.rows[1]["ctr"] = Whole(10)
              /\ result.data.rows[2]["period"] = DateCell(2024, 2, 2)
              /\ result.data.rows[2]["ctr"] = Whole(20)
        /\ result.periods = Cardinality({DayFirst(c) : c \in DateCells} \ {Null})

\* what the code does for C13: the periods are the day-first dates of the
\* rows that have a date and, when there is a platform column, a platform
C13_PeriodsOfKeyedRows ==
    \A result \in DailyResults :
        LET platforms == Range(adf.cols) \cap {"platform", "Source"}
            keyed == {r \in 1..NRows(adf) : \A c \in platforms : ~IsNull(adf.rows[r][c])}
        IN {result.data.rows[g]["period"] : g \in 1..NRows(result.data)}
              = {DayFirst(adf.rows[r][c]) :
                    r \in keyed, c \in Range(adf.cols) \cap {"date", "Date", "day"}} \ {Null}

\* the successful calls
DateResults ==
    {aggregated[k].result : k \in {x \in 1..Len(aggregated) : aggregated[x].result.success}}

\* C14: every ctr, cpc or cpm of the output is the ratio of the group's
\* summed numerator and denominator, never the mean of an input ratio column,
\* also when the input has the ratio column without one of its raw columns.
C14_RatiosFromSums ==
    \A result \in DateResults : \A g \in 1..NRows(result.data) :
        LET data == result.data
            row == data.rows[g]
        IN /\ HasCol(data, "ctr") =>
                 /\ HasCol(data, "clicks") /\ HasCol(data, "impressions")
                 /\ row["ctr"] = Round(FMul(FDiv(row["clicks"], row["impressions"]),
                                            Whole(100)), 4)
           /\ HasCol(data, "cpc") =>
                 /\ HasCol(data, "spend") /\ HasCol(data, "clicks")
                 /\ row["cpc"] = Round(FDiv(row["spend"], row["clicks"]), 4)
           /\ HasCol(data, "cpm") =>
                 /\ HasCol(data, "spend") /\ HasCol(data, "impressions")
                 /\ row["cpm"] = Round(FMul(FDiv(row["spend"], row["impressions"]),
                                            Whole(1000)), 4)

\* C15: a group whose summed impressions is 0 has null ctr and cpm, a group
\* whose summed clicks is 0 has a null cpc, and no cell of the output is
\* infinite.
C15_DateZeroDenominatorNull ==
    \A result \in DateResults : \A g \in 1..NRows(result.data) :
        LET data == result.data
            row == data.rows[g]
        IN /\ (HasCol(data, "impressions") /\ IsZero(row["impressions"])) =>
                 /\ HasCol(data, "ctr") => IsNull(row["ctr"])
                 /\ HasCol(data, "cpm") => IsNull(row["cpm"])
           /\ (HasCol(data, "clicks") /\ IsZero(row["clicks"])) =>
                 (HasCol(data, "cpc") => IsNull(row["cpc"]))
           /\ \A c \in Range(data.cols) : ~IsInf(row[c])

-----------------------------------------------------------------------------
(* DataNormalizationService.normalize, stage by stage.  The columns of the *)
(* table given carry the names of the source file; _map_columns works on   *)
(* their characters.  A log entry is a record [kind, col, n]: the kind of  *)
(* the message, the column it names ("" for none) and the count it gives.  *)

\* the characters of the column names of the tables given to normalize
ColumnSpelling(c) ==
    CASE c = "Campaign" -> <<"C", "a", "m", "p", "a", "i", "g", "n">>
      [] c = "Campaign Name" -> <<"C", "a", "m", "p", "a", "i", "g", "n", " ", "N", "a", "m", "e">>
      [] c = "Day" -> <<"D", "a", "y">>
      [] c = "Cost" -> <<"C", "o", "s", "t">>
      [] c = "Spend" -> <<"S", "p", "e", "n", "d">>
      [] c = " Clicks " -> <<" ", "C", "l", "i", "c", "k", "s", " ">>
      [] c = "Budget" -> <<"B", "u", "d", "g", "e", "t">>
      [] c = "currency" -> <<"c", "u", "r", "r", "e", "n", "c", "y">>
      [] c = "Conversions" -> <<"C", "o", "n", "v", "e", "r", "s", "i", "o", "n", "s">>
      [] c = "Impressions" -> <<"I", "m", "p", "r", "e", "s", "s", "i", "o", "n", "s">>
      [] c = "CTR" -> <<"C", "T", "R">>
      [] c = "campaign_name" -> <<"c", "a", "m", "p", "a", "i", "g", "n", "_", "n", "a", "m", "e">>
      [] c = "date" -> <<"d", "a", "t", "e">>
      [] c = "spend" -> <<"s", "p", "e", "n", "d">>
      [] c = "clicks" -> <<"c", "l", "i", "c", "k", "s">>
      [] c = "impressions" -> <<"i", "m", "p", "r", "e", "s", "s", "i", "o", "n", "s">>
      [] c = "conversions" -> <<"c", "o", "n", "v", "e", "r", "s", "i", "o", "n", "s">>
      [] c = "ctr" -> <<"c", "t", "r">>
      [] c = "cpc" -> <<"c", "p", "c">>
      [] c = "cpm" -> <<"c", "p", "m">>
      [] c = "cpa" -> <<"c", "p", "a">>
      [] c = "roas" -> <<"r", "o", "a", "s">>
      [] c = "Video Views" -> <<"V", "i", "d", "e", "o", " ", "V", "i", "e", "w", "s">>
      [] c = "video_views" -> <<"v", "i", "d", "e", "o", "_", "v", "i", "e", "w", "s">>
      [] c = "Date" -> <<"D", "a", "t", "e">>
      [] c = "platform" -> <<"p", "l", "a", "t", "f", "o", "r", "m">>
      [] c = "conversion_value" ->
            <<"c", "o", "n", "v", "e", "r", "s", "i", "o", "n", "_", "v", "a", "l", "u", "e">>

Entry(kind, col, n) == [kind |-> kind, col |-> col, n |-> n]

\* custom_mappings: None, or a dict from standard names to extra variants
NoMappings == <<>>

\* the position of the entry of schema named name, 0 when there is none
SchemaIndex(schema, name) ==
    IF \E i \in 1..Len(schema) : schema[i].name = name
    THEN CHOOSE i \in 1..Len(schema) : schema[i].name = name
    ELSE 0

\* all_mappings[standard_col].extend(variants) for the standard names that
\* the schema has: the lists extended are those of the class attribute
ExtendSchema(schema, custom_mappings) ==
    [i \in 1..Len(schema) |->
        [name |-> schema[i].name,
         variants |-> schema[i].variants
             \o (IF \E j \in 1..Len(custom_mappings) :
                        custom_mappings[j].name = schema[i].name
                 THEN custom_mappings[CHOOSE j \in 1..Len(custom_mappings) :
                          custom_mappings[j].name = schema[i].name].variants
                 ELSE <<>>)]]

\* all_mappings: the extended schema and, after it, the custom entries of
\* new standard names
AllMappings(schema, custom_mappings) ==
    ExtendSchema(schema, custom_mappings)
        \o SelectSeq(custom_mappings, LAMBDA m : SchemaIndex(schema, m.name) = 0)

\* col_lower in [v.lower() for v in variants]
IsVariant(col, variants) ==
    \E col_lower \in {Strip(Lower(ColumnSpelling(col)))} :
        \E i \in 1..Len(variants) : Lower(variants[i]) = col_lower

\* the first standard name from the i-th on with col among its variants,
\* "" when there is none
RECURSIVE FirstMapping(_, _, _)
FirstMapping(col, all_mappings, i) ==
    IF i > Len(all_mappings) THEN ""
    ELSE IF IsVariant(col, all_mappings[i].variants) THEN all_mappings[i].name
    ELSE FirstMapping(col, all_mappings, i + 1)

\* column_mapping.get(col): the first standard name with col among its
\* variants, "" when the column is not mapped
MappedName(col, all_mappings) == FirstMapping(col, all_mappings, 1)

\* the name of col after df.rename(columns=column_mapping)
Renamed(col, all_mappings) ==
    Only({IF name = "" THEN col ELSE name : name \in {MappedName(col, all_mappings)}})

\* the columns carry pairwise distinct labels
DistinctLabels(cols) == \A i, j \in 1..Len(cols) : cols[i] = cols[j] => i = j

\* the label c is carried by more than one column of t
Duplicated(t, c) == \E i, j \in 1..Len(t.cols) : i # j /\ t.cols[i] = c /\ t.cols[j] = c

\* df.rename(columns=column_mapping).  cols are the labels after the
\* renaming; a row is keyed by the label of a column when no other column
\* carries it, and by the source name of the column otherwise
RenameColumns(t, all_mappings) ==
    LET cols == [i \in 1..Len(t.cols) |-> Renamed(t.cols[i], all_mappings)]
        Twice(i) == \E j \in 1..Len(cols) : j # i /\ cols[j] = cols[i]
        Key(i) == IF Twice(i) THEN t.cols[i] ELSE cols[i]
        Source(x) == t.cols[CHOOSE i \in 1..Len(cols) : Key(i) = x]
    IN [cols |-> cols,
        rows |-> [r \in 1..NRows(t) |->
                    [x \in {Key(i) : i \in 1..Len(cols)} |-> t.rows[r][Source(x)]]]]

\* the log of _map_columns
MapColumnsLog(t, all_mappings) ==
    LET mapped == SelectSeq(t.cols, LAMBDA c : MappedName(c, all_mappings) # "")
    IN IF mapped # <<>>
       THEN <<Entry("Column mapping", "", Len(mapped))>>
            \o [i \in 1..Len(mapped) |-> Entry("Mapped", mapped[i], 0)]
       ELSE <<Entry("No standard column mappings found", "", 0)>>

\* _map_columns: the table returned
MapColumns(t, schema, custom_mappings) ==
    RenameColumns(t, AllMappings(schema, custom_mappings))


\* date_patterns, each format as the sequence of its directives and literals
date_patterns ==
    << <<"%Y", "-", "%m", "-", "%d">>,
       <<"%m", "/", "%d", "/", "%Y">>,
       <<"%d", "/", "%m", "/", "%Y">>,
       <<"%Y", "/", "%m", "/", "%d">>,
       <<"%d", "-", "%m", "-", "%Y">>,
       <<"%m", "-", "%d", "-", "%Y">>,
       <<"%Y", "%m", "%d">>,
       <<"%d", " ", "%b", " ", "%Y">>,
       <<"%d", " ", "%B", " ", "%Y">>,
       <<"%b", " ", "%d", ",", " ", "%Y">>,
       <<"%B", " ", "%d", ",", " ", "%Y">> >>

\* the month names of the C locale, lower-cased
MonthNames ==
    << <<"j", "a", "n", "u", "a", "r", "y">>,
       <<"f", "e", "b", "r", "u", "a", "r", "y">>,
       <<"m", "a", "r", "c", "h">>,
       <<"a", "p", "r", "i", "l">>,
       <<"m", "a", "y">>,
       <<"j", "u", "n", "e">>,
       <<"j", "u", "l", "y">>,
       <<"a", "u", "g", "u", "s", "t">>,
       <<"s", "e", "p", "t", "e", "m", "b", "e", "r">>,
       <<"o", "c", "t", "o", "b", "e", "r">>,
       <<"n", "o", "v", "e", "m", "b", "e", "r">>,
       <<"d", "e", "c", "e", "m", "b", "e", "r">> >>

\* w[i..i+n-1], <<>> when w is too short
Piece(w, i, n) == IF i + n - 1 <= Len(w) THEN SubSeq(w, i, i + n - 1) ELSE <<>>

\* the number of blanks of w from position i on
RECURSIVE Blanks(_, _)
Blanks(w, i) == IF i <= Len(w) /\ w[i] = " " THEN 1 + Blanks(w, i + 1) ELSE 0

\* the readings of one directive or literal at position i of w, in the order
\* in which the regular expression of strptime tries them: the characters
\* taken and the value read
Readings(w, i, tok) ==
    LET two == Piece(w, i, 2)
        one == Piece(w, i, 1)
        Name(m) == IF tok = "%b" THEN SubSeq(MonthNames[m], 1, 3) ELSE MonthNames[m]
        Named(m) == Lower(Piece(w, i, Len(Name(m)))) = Name(m)
    IN CASE tok = "%Y" ->
              IF IsDigits(Piece(w, i, 4))
              THEN <<[len |-> 4, val |-> ParseInt(Piece(w, i, 4))]>> ELSE <<>>
         [] tok = "%m" ->
              (IF IsDigits(two) /\ ParseInt(two) \in 1..12
               THEN <<[len |-> 2, val |-> ParseInt(two)]>> ELSE <<>>)
              \o (IF IsDigits(one) /\ ParseInt(one) \in 1..9
                  THEN <<[len |-> 1, val |-> ParseInt(one)]>> ELSE <<>>)
         [] tok = "%d" ->
              (IF IsDigits(two) /\ ParseInt(two) \in 1..31
               THEN <<[len |-> 2, val |-> ParseInt(two)]>> ELSE <<>>)
              \o (IF IsDigits(one) /\ ParseInt(one) \in 1..9
                  THEN <<[len |-> 1, val |-> ParseInt(one)]>> ELSE <<>>)
              \o (IF two # <<>> /\ two[1] = " " /\ IsDigits(<<two[2]>>)
                     /\ ParseInt(<<two[2]>>) \in 1..9
                  THEN <<[len |-> 2, val |-> ParseInt(<<two[2]>>)]>> ELSE <<>>)
         [] tok \in {"%b", "%B"} ->
              IF \E m \in 1..12 : Named(m)
              THEN <<[len |-> Len(Name(CHOOSE m \in 1..12 : Named(m))),
                      val |-> CHOOSE m \in 1..12 : Named(m)]>>
              ELSE <<>>
         [] tok = " " ->
              [k \in 1..Blanks(w, i) |-> [len |-> Blanks(w, i) + 1 - k, val |-> 0]]
         [] OTHER ->
              IF one = <<tok>> THEN <<[len |-> 1, val |-> 0]>> ELSE <<>>

\* the fields year, month, day after reading val for the directive tok
Field(acc, tok, val) ==
    CASE tok = "%Y" -> [acc EXCEPT !.y = val]
      [] tok \in {"%m", "%b", "%B"} -> [acc EXCEPT !.m = val]
      [] tok = "%d" -> [acc EXCEPT !.d = val]
      [] OTHER -> acc

\* the matches of the whole of w from position i against the format from its
\* j-th token on, the preferred first
RECURSIVE FormatMatches(_, _, _, _, _), FormatMatchesFrom(_, _, _, _, _, _)
FormatMatches(w, i, fmt, j, acc) ==
    IF j > Len(fmt) THEN (IF i > Len(w) THEN <<acc>> ELSE <<>>)
    ELSE FormatMatchesFrom(w, i, fmt, j, acc, 1)

\* the matches that take the k-th reading of the j-th token, or a later one
FormatMatchesFrom(w, i, fmt, j, acc, k) ==
    IF k > Len(Readings(w, i, fmt[j])) THEN <<>>
    ELSE FormatMatches(w, i + Readings(w, i, fmt[j])[k].len, fmt, j + 1,
                 Field(acc, fmt[j], Readings(w, i, fmt[j])[k].val))
         \o FormatMatchesFrom(w, i, fmt, j, acc, k + 1)

\* the outcome of a parse that raises ValueError
Raise == [k |-> "raise", n |-> 0, d |-> 1, s |-> ""]

\* datetime.strptime(w, fmt): the date, or Raise
Strptime(w, fmt) ==
    LET found == FormatMatches(w, 1, fmt, 1, [y |-> 1900, m |-> 1, d |-> 1])
    IN IF found = <<>> THEN Raise
       ELSE IF IsNull(ValidDate(found[1].y, found[1].m, found[1].d)) THEN Raise
       ELSE ValidDate(found[1].y, found[1].m, found[1].d)

\* one cell under pd.to_datetime(format=fmt, errors='raise'): NaN gives NaT
CellWithFormat(c, fmt) ==
    IF c.k = "str" THEN Strptime(DateSpelling(c.s), fmt)
    ELSE IF c.k = "date" THEN c
    ELSE Null

\* the format parses the whole date column
FormatFits(t, fmt) ==
    \A r \in 1..NRows(t) : CellWithFormat(t.rows[r]["date"], fmt) # Raise

\* the index of the first of date_patterns that parses the column, 0 for none
FirstPattern(t) ==
    IF \E p \in 1..Len(date_patterns) : FormatFits(t, date_patterns[p])
    THEN CHOOSE p \in 1..Len(date_patterns) :
             /\ FormatFits(t, date_patterns[p])
             /\ \A q \in 1..(p - 1) : ~FormatFits(t, date_patterns[q])
    ELSE 0

\* one cell under pd.to_datetime(errors='coerce') without a format: the ISO
\* form is read, any other text of the tables modelled is NaT
CellCoerced(c) ==
    IF c.k = "str" /\ Strptime(DateSpelling(c.s), date_patterns[1]) # Raise
    THEN Strptime(DateSpelling(c.s), date_patterns[1])
    ELSE IF c.k = "date" THEN c
    ELSE Null

\* pd.api.types.is_datetime64_any_dtype(df['date']): a column of NaN alone
\* is of dtype float; a table is left without rows only by the drop of the
\* rows of a parsed column
IsDatetimeColumn(t) ==
    /\ \A r \in 1..NRows(t) : t.rows[r]["date"].k \in {"date", "null"}
    /\ NRows(t) = 0 \/ \E r \in 1..NRows(t) : t.rows[r]["date"].k = "date"

\* df['date'] after the parsing of _normalize_dates
ParsedDate(t, row) ==
    IF IsDatetimeColumn(t) THEN row["date"]
    ELSE IF FirstPattern(t) # 0 THEN CellWithFormat(row["date"], date_patterns[FirstPattern(t)])
    ELSE CellCoerced(row["date"])

\* df.dropna(subset=[col])
DropNa(t, col) ==
    [t EXCEPT !.rows = SelectSeq(t.rows, LAMBDA row : ~IsNull(row[col]))]

\* the count of rows of t with NaN in col
NullCount(t, col) == Len(SelectSeq(t.rows, LAMBDA row : IsNull(row[col])))

WithParsedDates(t) == SetColumn(t, "date", LAMBDA row : ParsedDate(t, row))

\* _normalize_dates: the table returned
NormalizeDates(t) ==
    IF HasCol(t, "date") THEN DropNa(WithParsedDates(t), "date") ELSE t

\* the log of _normalize_dates
NormalizeDatesLog(t) ==
    IF ~HasCol(t, "date") THEN <<>>
    ELSE (IF IsDatetimeColumn(t) THEN <<>>
          ELSE IF FirstPattern(t) # 0
               THEN <<Entry("Date column parsed with format", "date", FirstPattern(t))>>
               ELSE <<Entry("Date column parsed with automatic detection", "date", 0)>>)
         \o (IF NullCount(WithParsedDates(t), "date") > 0
             THEN <<Entry("Warning: rows with invalid dates removed", "date",
                          NullCount(WithParsedDates(t), "date"))>>
             ELSE <<>>)


\* the characters of the texts found in the metric columns of the tables
NumberSpelling(t) ==
    CASE t = "$1" -> <<"$", "1">>
      [] t = "2%" -> <<"2", "%">>
      [] t = "1.5" -> <<"1", ".", "5">>
      [] t = "abc" -> <<"a", "b", "c">>
      [] OTHER -> <<>>

\* str.replace(r'[$,]', '') and str.replace('%', '')
Cleaned(w) == SelectSeq(w, LAMBDA ch : ch \notin {"$", ",", "%"})

\* the position of the first "." of w, 0 when there is none
PointIndex(w) ==
    IF \E i \in 1..Len(w) : w[i] = "."
    THEN CHOOSE i \in 1..Len(w) : w[i] = "." /\ \A j \in 1..(i - 1) : w[j] # "."
    ELSE 0

\* pd.to_numeric(errors='coerce') on one text: digits, with or without a
\* decimal point, give the number; any other text gives NaN
ToNumeric(w) ==
    LET p == PointIndex(w)
        whole == SubSeq(w, 1, p - 1)
        frac == SubSeq(w, p + 1, Len(w))
    IN IF IsDigits(w) THEN Whole(ParseInt(w))
       ELSE IF p # 0 /\ whole \o frac # <<>>
               /\ (\A i \in 1..Len(whole \o frac) : (whole \o frac)[i] \in Range(Digits))
            THEN Num(ParseInt(whole \o frac), Pow10(Len(frac)))
       ELSE Null

\* one cell of a column of dtype object after the cleaning: a number keeps
\* its value through astype(str) and to_numeric
CleanCell(c) == IF c.k = "str" THEN ToNumeric(Cleaned(NumberSpelling(c.s))) ELSE c

numeric_cols ==
    <<"impressions", "clicks", "spend", "conversions", "conversion_value",
      "reach", "cpc", "cpm", "ctr">>

\* df[col].dtype == 'object': the column holds some text
IsObject(t, col) == \E r \in 1..NRows(t) : t.rows[r][col].k = "str"

\* df[col].dtype raises AttributeError when df[col] is a DataFrame, that is
\* when the label col is carried twice
NumericRaises(t) == \E i \in 1..Len(numeric_cols) : Duplicated(t, numeric_cols[i])

\* the loop of _normalize_numeric from its i-th column on
RECURSIVE CleanCols(_, _)
CleanCols(t, i) ==
    IF i > Len(numeric_cols) THEN t
    ELSE CleanCols(IF HasCol(t, numeric_cols[i]) /\ IsObject(t, numeric_cols[i])
                   THEN SetColumn(t, numeric_cols[i], LAMBDA row : CleanCell(row[numeric_cols[i]]))
                   ELSE t,
                   i + 1)

\* _normalize_numeric: the table returned when no column raises
NormalizeNumeric(t) == CleanCols(t, 1)

\* the log of _normalize_numeric
NormalizeNumericLog(t) ==
    LET cleaned == SelectSeq(numeric_cols, LAMBDA c : HasCol(t, c) /\ IsObject(t, c))
    IN [i \in 1..Len(cleaned) |-> Entry("Cleaned numeric column", cleaned[i], 0)]

\* the log of _normalize_currency
NormalizeCurrencyLog(t, target_currency) ==
    LET converted == SelectSeq(monetary_cols, LAMBDA c : HasCol(t, c))
    IN IF target_currency \notin DOMAIN CURRENCY_RATES
       THEN <<Entry("Currency not supported, keeping original values", "", 0)>>
       ELSE IF HasCol(t, "currency")
            THEN [i \in 1..Len(converted) |-> Entry("Converted", converted[i], 0)]
       ELSE <<Entry("No currency column found", "", 0)>>

\* the log of _deduplicate
DeduplicateLog(t) ==
    IF NRows(Deduplicate(t)) = NRows(t) THEN <<>>
    ELSE IF \E i \in 1..Len(key_cols) : HasCol(t, key_cols[i])
         THEN <<Entry("Removed duplicate rows based on", "", NRows(t) - NRows(Deduplicate(t)))>>
    ELSE <<Entry("Removed exact duplicate rows", "", NRows(t) - NRows(Deduplicate(t)))>>

derived_cols == <<"ctr", "cpc", "cpm", "cpa", "roas">>

\* the columns a derived metric is calculated from
DerivedFrom(c) ==
    CASE c = "ctr" -> {"clicks", "impressions"}
      [] c = "cpc" -> {"spend", "clicks"}
      [] c = "cpm" -> {"spend", "impressions"}
      [] c = "cpa" -> {"spend", "conversions"}
      [] c = "roas" -> {"conversion_value", "spend"}

\* the log of _calculate_derived_metrics: one entry per metric calculated
CalculateDerivedMetricsLog(t) ==
    [i \in 1..Len(SelectSeq(derived_cols,
                      LAMBDA c : ~HasCol(t, c) /\ DerivedFrom(c) \subseteq Range(t.cols))) |->
        Entry("Calculated",
              SelectSeq(derived_cols,
                  LAMBDA c : ~HasCol(t, c) /\ DerivedFrom(c) \subseteq Range(t.cols))[i],
              0)]

numeric_fill_zero ==
    <<"impressions", "clicks", "spend", "conversions", "conversion_value",
      "reach", "video_views">>
text_cols == <<"campaign_name", "adset_name", "ad_name", "keyword">>

\* df[col] = df[col].fillna(value) for each of cols that t has, from the
\* i-th on
RECURSIVE FillCols(_, _, _, _)
FillCols(t, cols, value, i) ==
    IF i > Len(cols) THEN t
    ELSE FillCols(IF HasCol(t, cols[i])
                  THEN SetColumn(t, cols[i],
                           LAMBDA row : IF IsNull(row[cols[i]]) THEN value ELSE row[cols[i]])
                  ELSE t,
                  cols, value, i + 1)

\* _handle_missing_values without the filling of the text columns
HandleMissingValuesZeroOnly(t) == FillCols(t, numeric_fill_zero, Whole(0), 1)

\* _handle_missing_values: the table returned
HandleMissingValues(t) ==
    FillCols(FillCols(t, numeric_fill_zero, Whole(0), 1), text_cols, Str(""), 1)

\* df[col].isna().sum() > 0 has no truth value when df[col] is a DataFrame
MissingRaises(t) ==
    \E c \in Range(numeric_fill_zero) \cup Range(text_cols) : Duplicated(t, c)

\* the log of _handle_missing_values
HandleMissingValuesLog(t) ==
    LET WithMissing(cols) == SelectSeq(cols, LAMBDA c : HasCol(t, c) /\ NullCount(t, c) > 0)
    IN [i \in 1..Len(WithMissing(numeric_fill_zero)) |->
           Entry("Filled missing values with 0", WithMissing(numeric_fill_zero)[i],
                 NullCount(t, WithMissing(numeric_fill_zero)[i]))]
       \o [i \in 1..Len(WithMissing(text_cols)) |->
           Entry("Filled missing values with empty string", WithMissing(text_cols)[i],
                 NullCount(t, WithMissing(text_cols)[i]))]

-----------------------------------------------------------------------------
(* SpecNormalize: normalize, one action per stage of the call.  pc is the  *)
(* stage the call is about to run, "done" after the return and "raised"    *)
(* after an exception left the call; hist and calls are the tables given   *)
(* to the stages the current call has run and the names of those stages.   *)

\* the stages of normalize in the order of its body
STAGES ==
    <<"map_columns", "normalize_dates", "normalize_numeric", "normalize_currency",
      "deduplicate", "calculate_derived_metrics", "handle_missing_values">>

\* the position of stage op in STAGES
StageIndex(op) == CHOOSE i \in 1..Len(STAGES) : STAGES[i] = op

\* what follows stage op: the next stage, or the recording of the call
After(op) ==
    IF StageIndex(op) < Len(STAGES) THEN STAGES[StageIndex(op) + 1] ELSE "record"

\* a stage returns the table result and its log
StageReturns(op, result, log) ==
    /\ pc = op
    /\ df' = result
    /\ hist' = Append(hist, df)
    /\ calls' = Append(calls, [op |-> op, arg |-> ""])
    /\ log_entries' = log_entries \o log
    /\ pc' = After(op)
    /\ UNCHANGED <<args, normalization_log>>

\* a stage raises: the exception leaves normalize, nothing is recorded
StageRaises(op) ==
    /\ pc = op
    /\ hist' = Append(hist, df)
    /\ calls' = Append(calls, [op |-> op, arg |-> ""])
    /\ pc' = "raised"
    /\ UNCHANGED <<df, args, log_entries, normalization_log>>

\* normalize(df, platform, currency, custom_mappings) is entered; args keeps
\* the arguments of the call and, in earlier, those of the calls before it
Normalize(currency, custom_mappings) ==
    /\ pc \in {"idle", "done"}
    /\ Len(normalization_log) < MaxCalls
    /\ args' = [currency |-> currency, custom_mappings |-> custom_mappings,
                original_columns |-> df.cols, input |-> df,
                earlier |-> IF pc = "idle" THEN <<>>
                            ELSE Append(args.earlier, [currency |-> args.currency,
                                                       custom_mappings |-> args.custom_mappings])]
    /\ log_entries' = <<>>
    /\ hist' = <<>>
    /\ calls' = <<>>
    /\ pc' = "map_columns"
    /\ UNCHANGED <<df, STANDARD_SCHEMA, normalization_log, ingestVars, qualityVars, mergerVars, moreVars>>

\* Step 1
MapColumnsStep ==
    /\ StageReturns("map_columns",
                    MapColumns(df, STANDARD_SCHEMA, args.custom_mappings),
                    MapColumnsLog(df, AllMappings(STANDARD_SCHEMA, args.custom_mappings)))
    /\ STANDARD_SCHEMA' = ExtendSchema(STANDARD_SCHEMA, args.custom_mappings)
    /\ UNCHANGED <<ingestVars, qualityVars, mergerVars, moreVars>>

\* Step 2: df['date'].dtype raises AttributeError when two columns are
\* labelled date
NormalizeDatesStep ==
    /\ IF Duplicated(df, "date") THEN StageRaises("normalize_dates")
       ELSE StageReturns("normalize_dates", NormalizeDates(df), NormalizeDatesLog(df))
    /\ UNCHANGED <<STANDARD_SCHEMA, ingestVars, qualityVars, mergerVars, moreVars>>

\* Step 3
NormalizeNumericStep ==
    /\ IF NumericRaises(df) THEN StageRaises("normalize_numeric")
       ELSE StageReturns("normalize_numeric", NormalizeNumeric(df), NormalizeNumericLog(df))
    /\ UNCHANGED <<STANDARD_SCHEMA, ingestVars, qualityVars, mergerVars, moreVars>>

\* Step 4
NormalizeCurrencyStep ==
    /\ StageReturns("normalize_currency", NormalizeCurrency(df, args.currency),
                    NormalizeCurrencyLog(df, args.currency))
    /\ UNCHANGED <<STANDARD_SCHEMA, ingestVars, qualityVars, mergerVars, moreVars>>

\* Step 5
DeduplicateStep ==
    /\ StageReturns("deduplicate", Deduplicate(df), DeduplicateLog(df))
    /\ UNCHANGED <<STANDARD_SCHEMA, ingestVars, qualityVars, mergerVars, moreVars>>

\* Step 6
CalculateDerivedMetricsStep ==
    /\ StageReturns("calculate_derived_metrics", CalculateDerivedMetrics(df),
                    CalculateDerivedMetricsLog(df))
    /\ UNCHANGED <<STANDARD_SCHEMA, ingestVars, qualityVars, mergerVars, moreVars>>

\* Step 7
HandleMissingValuesStep ==
    /\ IF MissingRaises(df) THEN StageRaises("handle_missing_values")
       ELSE StageReturns("handle_missing_values", HandleMissingValues(df),
                         HandleMissingValuesLog(df))
    /\ UNCHANGED <<STANDARD_SCHEMA, ingestVars, qualityVars, mergerVars, moreVars>>

\* normalization_record, without its timestamp and platform
NormalizationRecord(t) ==
    [original_columns |-> args.original_columns,
     normalized_columns |-> t.cols,
     original_rows |-> NRows(t),
     final_rows |-> NRows(t),
     steps_performed |-> log_entries]

\* the record is appended to normalization_log and the call returns df
RecordAndReturn ==
    /\ pc = "record"
    /\ normalization_log' = Append(normalization_log, NormalizationRecord(df))
    /\ pc' = "done"
    /\ UNCHANGED <<df, hist, calls, STANDARD_SCHEMA, args, log_entries,
                   ingestVars, qualityVars, mergerVars, moreVars>>

\* the source tables: their columns and the cells of each column
NormalizeSchemas ==
    { <<"Day", "Campaign">>, <<" Clicks ", "Impressions", "Campaign Name">>,
      <<"Budget", "currency">>,
      <<"Cost", "Spend">>, <<"Video Views", "video_views">>, <<"Day", "Date">> }

NormalizeDom ==
    [c \in UNION {Range(cs) : cs \in NormalizeSchemas} |->
        CASE c \in {"Day", "Date"} -> {Str("2024-02-01"), Str("n/a")}
          [] c \in {"Campaign", "Campaign Name"} -> {Str("A"), Null}
          [] c = " Clicks " -> {Null, Whole(1)}
          [] c = "Impressions" -> {Whole(0), Str("2%")}
          [] c = "currency" -> {Str("eur"), Null}
          [] c = "Spend" -> {Whole(1), Null}
          [] OTHER -> {Whole(1)}]

\* the arguments of the calls
Currencies == {"USD", "EUR"}
CustomMappings == {NoMappings, <<[name |-> "spend", variants |-> <<ColumnSpelling("Budget")>>]>>}

InitNormalize ==
    /\ df \in UNION {Tables(cs, NormalizeDom, 1, MaxRows) : cs \in NormalizeSchemas}
    /\ hist = <<>>
    /\ calls = <<>>
    /\ PipeIdle
    /\ IngestIdle /\ QualityIdle /\ MergerIdle /\ MoreIdle

NormalizeCall ==
    \E currency \in Currencies, custom_mappings \in CustomMappings :
        Normalize(currency, custom_mappings)

NextNormalize ==
    \/ NormalizeCall
    \/ MapColumnsStep
    \/ NormalizeDatesStep
    \/ NormalizeNumericStep
    \/ NormalizeCurrencyStep
    \/ DeduplicateStep
    \/ CalculateDerivedMetricsStep
    \/ HandleMissingValuesStep
    \/ RecordAndReturn

SpecNormalize == InitNormalize /\ [][NextNormalize]_vars

-----------------------------------------------------------------------------
(* The normalize pipeline: the claims on its stages and its report. *)

\* the table the first stage of the current call returned
Mapped == Returned(1)

\* C17: for every input table with pairwise distinct column names, after the
\* column-mapping stage no two columns of the table carry the same canonical
\* name.
C17_CanonicalNamesUnique ==
    (Len(calls) >= 1 /\ DistinctLabels(hist[1].cols)) => DistinctLabels(Mapped.cols)

\* the stage that writes a log entry of the given kind
StageOfKind(kind) ==
    CASE kind \in {"Column mapping", "Mapped", "No standard column mappings found"} -> 1
      [] kind \in {"Date column parsed with format",
                   "Date column parsed with automatic detection",
                   "Warning: rows with invalid dates removed"} -> 2
      [] kind = "Cleaned numeric column" -> 3
      [] kind \in {"Currency not supported, keeping original values", "Converted",
                   "No currency column found"} -> 4
      [] kind \in {"Removed duplicate rows based on", "Removed exact duplicate rows"} -> 5
      [] kind = "Calculated" -> 6
      [] kind \in {"Filled missing values with 0",
                   "Filled missing values with empty string"} -> 7

\* the entries of log are in the order of the stages that write them
InStageOrder(log) ==
    \A i, j \in 1..Len(log) : i < j => StageOfKind(log[i].kind) <= StageOfKind(log[j].kind)

\* the stages the call has run are the first stages of STAGES, in order,
\* each given the table the one before returned
RunInOrder ==
    /\ Len(calls) <= Len(STAGES)
    /\ \A i \in 1..Len(calls) : calls[i].op = STAGES[i]
    /\ \A i \in 2..Len(calls) : hist[i] = Returned(i - 1)
    /\ InStageOrder(log_entries)

\* C16: every normalize call runs its seven stages exactly once each and in
\* the fixed order, each stage receiving the table output by the previous
\* one, and the entries of steps_performed appear in that stage order: no
\* call is left before its seventh stage, and a call that is over has run
\* all seven.
C16_SevenStagesInOrder ==
    /\ RunInOrder
    /\ pc # "raised"
    /\ pc \in {"record", "done"} => Len(calls) = Len(STAGES)
    /\ pc = "done" =>
          InStageOrder(normalization_log[Len(normalization_log)].steps_performed)

\* C16, the part the code keeps: the stages a call runs, up to the one that
\* raises, are run once each in the fixed order, and a call that returns has
\* run all seven.
C16_OrderOfStagesRun ==
    /\ RunInOrder
    /\ pc \in {"record", "done"} => Len(calls) = Len(STAGES)

\* the report of the call that returned last
LastRecord == normalization_log[Len(normalization_log)]

\* C20: the report of a call records original_rows, the number of rows of
\* the table passed to normalize, and final_rows, the number of rows of the
\* table returned.
C20_RowCounts ==
    pc = "done" =>
        /\ LastRecord.original_rows = NRows(args.input)
        /\ LastRecord.final_rows = NRows(df)

\* the table given to the missing-value stage of the call that returned
BeforeFill == hist[Len(STAGES)]

\* the cells of the columns of t that are among cols
CellsOf(t, cols) ==
    {<<r, c>> : r \in 1..NRows(t), c \in Range(t.cols) \cap Range(cols)}

\* C18: in the table returned by normalize no cell of an existing
\* impressions, clicks, spend, conversions, conversion_value, reach or
\* video_views column is null, no cell of an existing campaign_name,
\* adset_name, ad_name or keyword column is null (a null became 0, or the
\* empty string), and the null cells of the ratio columns ctr, cpc, cpm, cpa
\* and roas are null still.
C18_MissingValuePolicy ==
    pc = "done" =>
        /\ \A x \in CellsOf(df, numeric_fill_zero) :
              /\ ~IsNull(df.rows[x[1]][x[2]])
              /\ IsNull(BeforeFill.rows[x[1]][x[2]]) => df.rows[x[1]][x[2]] = Whole(0)
        /\ \A x \in CellsOf(df, text_cols) :
              /\ ~IsNull(df.rows[x[1]][x[2]])
              /\ IsNull(BeforeFill.rows[x[1]][x[2]]) => df.rows[x[1]][x[2]] = Str("")
        /\ \A x \in CellsOf(df, derived_cols) :
              IsNull(BeforeFill.rows[x[1]][x[2]]) => IsNull(df.rows[x[1]][x[2]])

\* a call returned a table in which a null count became 0, a null name became
\* the empty string and a null ratio stayed null
C18_Witness ==
    /\ pc = "done"
    /\ \E x \in CellsOf(df, numeric_fill_zero) :
          IsNull(BeforeFill.rows[x[1]][x[2]]) /\ df.rows[x[1]][x[2]] = Whole(0)
    /\ \E x \in CellsOf(df, text_cols) :
          IsNull(BeforeFill.rows[x[1]][x[2]]) /\ df.rows[x[1]][x[2]] = Str("")
    /\ \E x \in CellsOf(df, derived_cols) : IsNull(df.rows[x[1]][x[2]])

\* C27: after any sequence of normalize calls STANDARD_SCHEMA holds exactly
\* its initial synonym lists: the synonyms passed as custom_mappings to one
\* call never reach a later call.
C27_SchemaStatic == STANDARD_SCHEMA = STANDARD_SCHEMA_0

\* the call that returned was given the table and the arguments of the call
\* before it
SameArguments ==
    /\ pc = "done"
    /\ args.earlier # <<>>
    /\ args.earlier[Len(args.earlier)] =
          [currency |-> args.currency, custom_mappings |-> args.custom_mappings]

\* C30: normalize called on the table a previous normalize call returned,
\* with the same arguments, returns a table with the same rows and values.
C30_NormalizeIdempotent == SameArguments => df = args.input

-----------------------------------------------------------------------------
(* DataMergerService.merge_datasets. *)

\* lines 52-56: each table without a platform column gets one, holding the
\* name given for the table, when one name per table is given
RECURSIVE Tagged(_, _, _)
Tagged(ds, platform_names, i) ==
    IF i > Len(ds) THEN <<>>
    ELSE <<IF platform_names # <<>> /\ Len(platform_names) = Len(ds)
              /\ ~HasCol(ds[i], "platform")
           THEN SetColumn(ds[i], "platform", LAMBDA row : Str(platform_names[i]))
           ELSE ds[i]>>
         \o Tagged(ds, platform_names, i + 1)

\* common_cols
RECURSIVE CommonCols(_, _)
CommonCols(ds, n) ==
    IF n = 1 THEN Range(ds[1].cols) ELSE CommonCols(ds, n - 1) \cap Range(ds[n].cols)

\* the columns of the first n tables, each at its first appearance
RECURSIVE UnionCols(_, _)
UnionCols(ds, n) ==
    IF n = 0 THEN <<>>
    ELSE UnionCols(ds, n - 1)
         \o SelectSeq(ds[n].cols, LAMBDA c : c \notin Range(UnionCols(ds, n - 1)))

\* the rows of the first n tables over the columns cols, NaN where a table
\* has no such column
RECURSIVE StackRows(_, _, _)
StackRows(ds, cols, n) ==
    IF n = 0 THEN <<>>
    ELSE StackRows(ds, cols, n - 1)
         \o [r \in 1..NRows(ds[n]) |->
               [c \in Range(cols) |-> IF HasCol(ds[n], c) THEN ds[n].rows[r][c] ELSE Null]]

\* pd.concat(datasets, join='inner'): the common columns alone are kept
ConcatInner(ds) ==
    [cols |-> SelectSeq(UnionCols(ds, Len(ds)), LAMBDA c : c \in CommonCols(ds, Len(ds))),
     rows |-> StackRows(ds, SelectSeq(UnionCols(ds, Len(ds)),
                                      LAMBDA c : c \in CommonCols(ds, Len(ds))), Len(ds))]

\* pd.concat(datasets, ignore_index=True, sort=False)
Concat(ds) ==
    [cols |-> UnionCols(ds, Len(ds)), rows |-> StackRows(ds, UnionCols(ds, Len(ds)), Len(ds))]

\* the name of a column of the right table that the left table has too, with
\* the suffix '_dup'
Dup(c) ==
    CASE c = "clicks" -> "clicks_dup"
      [] c = "spend" -> "spend_dup"
      [] c = "campaign_name" -> "campaign_name_dup"
      [] c = "date" -> "date_dup"
      [] c = "platform" -> "platform_dup"

\* the name in the joined table of column c of the right table
RightName(left, c, on) == IF c # on /\ HasCol(left, c) THEN Dup(c) ELSE c

\* the columns of pd.merge(left, right, on=on, suffixes=('', '_dup'))
MergeCols(left, right, on) ==
    left.cols \o [i \in 1..Len(SelectSeq(right.cols, LAMBDA c : c # on)) |->
                    RightName(left, SelectSeq(right.cols, LAMBDA c : c # on)[i], on)]

\* the rows of t whose key is the cell key
KeyRows(t, on, key) == SelectSeq(t.rows, LAMBDA row : row[on] = key)

\* the row of the joined table made of row l of the left table and row r of
\* the right one; None stands for the missing side
JoinedRow(left, right, on, key, l, r) ==
    [c \in Range(MergeCols(left, right, on)) |->
        IF c = on THEN key
        ELSE IF HasCol(left, c) THEN (IF l = <<>> THEN Null ELSE l[1][c])
        ELSE IF r = <<>> THEN Null
        ELSE r[1][CHOOSE x \in Range(right.cols) : RightName(left, x, on) = c]]

\* the rows of the outer join for one key: every left row with every right
\* row, or the rows of one side with NaN for the other
JoinKey(left, right, on, key) ==
    IF KeyRows(right, on, key) = <<>>
    THEN [n \in 1..Len(KeyRows(left, on, key)) |->
             JoinedRow(left, right, on, key, <<KeyRows(left, on, key)[n]>>, <<>>)]
    ELSE IF KeyRows(left, on, key) = <<>>
    THEN [n \in 1..Len(KeyRows(right, on, key)) |->
             JoinedRow(left, right, on, key, <<>>, <<KeyRows(right, on, key)[n]>>)]
    ELSE [n \in 1..(Len(KeyRows(left, on, key)) * Len(KeyRows(right, on, key))) |->
             JoinedRow(left, right, on, key,
                 <<KeyRows(left, on, key)[((n - 1) \div Len(KeyRows(right, on, key))) + 1]>>,
                 <<KeyRows(right, on, key)[((n - 1) % Len(KeyRows(right, on, key))) + 1]>>)]

\* the rows of the outer join for the keys from the i-th on
RECURSIVE JoinRows(_, _, _, _, _)
JoinRows(left, right, on, keys, i) ==
    IF i > Len(keys) THEN <<>>
    ELSE JoinKey(left, right, on, keys[i][on]) \o JoinRows(left, right, on, keys, i + 1)

\* pd.merge(left, right, on=on, how='outer', suffixes=('', '_dup')): the keys
\* of both tables in sorted order; the key cells of the tables are strings
Merge(left, right, on) ==
    [cols |-> MergeCols(left, right, on),
     rows |-> JoinRows(left, right, on,
                  SortKeys(GroupKeys(left, <<on>>) \cup GroupKeys(right, <<on>>), <<on>>), 1)]

\* the loop of lines 78-80 over the first n tables
RECURSIVE JoinAll(_, _, _)
JoinAll(ds, on, n) ==
    IF n = 1 THEN ds[1] ELSE Merge(JoinAll(ds, on, n - 1), ds[n], on)

\* join_col
JoinCol(ds) ==
    FindColumn(ds[1], DATE_COLUMN_CANDIDATES \o CAMPAIGN_COLUMN_CANDIDATES, 1)

\* merge_record, without its timestamp
MergeRecord(ds, platform_names, merge_strategy, merged_df) ==
    [input_datasets |-> Len(ds), platforms |-> platform_names,
     strategy |-> merge_strategy,
     common_columns |-> CommonCols(ds, Len(ds)),
     all_columns |-> Range(UnionCols(ds, Len(ds))),
     output_rows |-> NRows(merged_df), output_columns |-> Len(merged_df.cols)]

\* the dict returned with the table merged
Merged(merged_df, record) == [success |-> TRUE, data |-> merged_df, metadata |-> record]

\* merge_datasets from line 58 on, for the tables as tagged
MergeTagged(ds, platform_names, merge_strategy) ==
    IF merge_strategy = "append"
    THEN Merged(Concat(ds), MergeRecord(ds, platform_names, merge_strategy, Concat(ds)))
    ELSE IF merge_strategy = "join"
    THEN (IF JoinCol(ds) = "" \/ JoinCol(ds) \notin CommonCols(ds, Len(ds))
          THEN [success |-> FALSE, error |-> "No common join column (date or campaign) found"]
          ELSE Merged(JoinAll(ds, JoinCol(ds), Len(ds)),
                      MergeRecord(ds, platform_names, merge_strategy,
                                  JoinAll(ds, JoinCol(ds), Len(ds)))))
    ELSE [success |-> FALSE, error |-> "Unknown merge strategy"]

\* merge_datasets
MergeDatasets(ds, platform_names, merge_strategy) ==
    IF ds = <<>> THEN [success |-> FALSE, error |-> "No datasets provided"]
    ELSE MergeTagged(Tagged(ds, platform_names, 1), platform_names, merge_strategy)

\* the calls of merge_datasets on one service
MaxMerges == 2
MaxMergeRows == 2

\* the lists of tables given to merge_datasets
MergeSchemas ==
    { <<>>,
      << <<"date", "clicks">>, <<"date", "spend">> >>,
      << <<"date", "campaign_name", "clicks">>, <<"campaign_name", "spend">> >>,
      << <<"campaign_name", "clicks">>, <<"campaign_name", "clicks", "platform">> >>,
      << <<"clicks">>, <<"spend">> >>,
      << <<"date", "spend">>, <<"date", "clicks">>, <<"date", "campaign_name">> >> }

MergeDom ==
    [date |-> {Str("01-02-2024")},
     campaign_name |-> {Str("A"), Str("B")},
     clicks |-> {Whole(1)}, spend |-> {Whole(2)}, platform |-> {Str("meta")}]

\* the lists of tables over a list of schemas
RECURSIVE TableLists(_, _)
TableLists(schemas, n) ==
    IF n = 0 THEN {<<>>}
    ELSE {Append(ds, t) : ds \in TableLists(schemas, n - 1),
                          t \in Tables(schemas[n], MergeDom, 1, MaxMergeRows)}

\* platform_names: none, or one name for each table
PlatformNames(ds) ==
    {<<>>, [i \in 1..Len(ds) |-> IF i = 1 THEN "google" ELSE "meta"]}

InitMerge ==
    /\ datasets \in UNION {TableLists(schemas, Len(schemas)) : schemas \in MergeSchemas}
    /\ merged = <<>>
    /\ merge_history = <<>>
    /\ PipeIdle /\ NormIdle /\ IngestIdle /\ QualityIdle /\ MergerIdle
    /\ performance_issues = <<>> /\ HistoryIdle /\ AppIdle

\* one call of merge_datasets: the tables tagged replace those of the list
\* given (line 56), and a merge that succeeds is recorded (line 95)
MergeDatasetsCall(platform_names, merge_strategy) ==
    /\ Len(merged) < MaxMerges
    /\ \E result \in {MergeDatasets(datasets, platform_names, merge_strategy)} :
          /\ merged' = Append(merged, [input |-> datasets,
                                       platform_names |-> platform_names,
                                       merge_strategy |-> merge_strategy,
                                       result |-> result])
          /\ merge_history' = IF result.success
                              THEN Append(merge_history, result.metadata)
                              ELSE merge_history
    /\ datasets' = Tagged(datasets, platform_names, 1)
    /\ UNCHANGED <<pipeVars, normVars, ingestVars, qualityVars, mergerVars,
                   performance_issues, historyVars, appVars>>

NextMerge ==
    \E platform_names \in PlatformNames(datasets),
       merge_strategy \in {"append", "join", "zip"} :
        MergeDatasetsCall(platform_names, merge_strategy)

SpecMerge == InitMerge /\ [][NextMerge]_vars

\* the rows of the tables before the i-th
RECURSIVE Offset(_, _)
Offset(ds, i) == IF i = 1 THEN 0 ELSE Offset(ds, i - 1) + NRows(ds[i - 1])

\* out is the tables ds stacked: the union of their columns, their rows table
\* by table in the order given, null where the table of the row has no such
\* column
Stacked(ds, out) ==
    /\ Range(out.cols) = UNION {Range(ds[i].cols) : i \in 1..Len(ds)}
    /\ Len(out.cols) = Cardinality(Range(out.cols))
    /\ NRows(out) = Offset(ds, Len(ds) + 1)
    /\ \A i \in 1..Len(ds) : \A r \in 1..NRows(ds[i]) : \A c \in Range(out.cols) :
          out.rows[Offset(ds, i) + r][c] =
              IF HasCol(ds[i], c) THEN ds[i].rows[r][c] ELSE Null

\* the calls with the append strategy that returned a table
Appends == {i \in 1..Len(merged) : merged[i].merge_strategy = "append" /\ merged[i].result.success}

\* C21: merge_datasets with the append strategy returns the union of the
\* columns of the tables given, as many rows as the tables have together, the
\* rows table by table in the order given and in the order of each table, and
\* null in every column that the table of the row does not have.
C21_AppendUnion == \A i \in Appends : Stacked(merged[i].input, merged[i].result.data)

\* C21, amended: the same of the tables as tagged with the platform names,
\* where each table without a platform column has one that holds its name.
C21_AppendUnionTagged ==
    \A i \in Appends :
        Stacked(Tagged(merged[i].input, merged[i].platform_names, 1), merged[i].result.data)

\* an append of tables with different columns, one of them tagged
C21_Witness ==
    \E i \in Appends :
        /\ merged[i].platform_names # <<>>
        /\ \E a, b \in 1..Len(merged[i].input) :
              /\ ~HasCol(merged[i].input[a], "platform")
              /\ Range(merged[i].input[a].cols) # Range(merged[i].input[b].cols)
        /\ \E r \in 1..NRows(merged[i].result.data) :
              \E c \in Range(merged[i].result.data.cols) :
                  IsNull(merged[i].result.data.rows[r][c])

\* some candidate names a column of every table
CommonCandidate(ds, candidates) ==
    \E i \in 1..Len(candidates) :
        \A n \in 1..Len(ds) : FindColumn(ds[n], <<candidates[i]>>, 1) # ""

\* the calls with the join strategy on one table or more
Joins == {i \in 1..Len(merged) : merged[i].merge_strategy = "join" /\ merged[i].input # <<>>}

\* C22: merge_datasets with the join strategy succeeds exactly when a
\* candidate, date candidates first and campaign candidates next, names a
\* column of every table given, and it returns success false otherwise.
C22_JoinSucceedsOnCommonKey ==
    \A i \in Joins :
        merged[i].result.success <=>
            CommonCandidate(merged[i].input,
                            DATE_COLUMN_CANDIDATES \o CAMPAIGN_COLUMN_CANDIDATES)

-----------------------------------------------------------------------------
(* DataQualityService.detect_performance_anomalies. *)

\* the numbers of a column, NaN left out
Numbers(t, col) == SelectSeq([r \in 1..NRows(t) |-> t.rows[r][col]], IsNum)

\* a sequence of numbers in ascending order
RECURSIVE Ascending(_)
Ascending(cs) ==
    IF cs = <<>> THEN <<>>
    ELSE <<cs[CHOOSE i \in 1..Len(cs) : \A j \in 1..Len(cs) : ~NumLess(cs[j], cs[i])]>>
         \o Ascending([k \in 1..(Len(cs) - 1) |->
               IF k < (CHOOSE i \in 1..Len(cs) : \A j \in 1..Len(cs) : ~NumLess(cs[j], cs[i]))
               THEN cs[k] ELSE cs[k + 1]])

\* the quantile p / q of the ascending numbers cs, interpolated linearly
\* between the two numbers next to the position (n - 1) * p / q
Interpolated(cs, p, q) ==
    IF cs = <<>> THEN Null
    ELSE FAdd(cs[(((Len(cs) - 1) * p) \div q) + 1],
              FMul(FSub(cs[IF (((Len(cs) - 1) * p) \div q) + 2 > Len(cs)
                           THEN Len(cs) ELSE (((Len(cs) - 1) * p) \div q) + 2],
                        cs[(((Len(cs) - 1) * p) \div q) + 1]),
                   Num(((Len(cs) - 1) * p) % q, q)))

\* df[col].quantile(p / q)
Quantile(t, col, p, q) == Interpolated(Ascending(Numbers(t, col)), p, q)

\* a > b and a < b of two floats: False when either is NaN
Above(a, b) == IsNum(a) /\ IsNum(b) /\ NumLess(b, a)
Below(a, b) == IsNum(a) /\ IsNum(b) /\ NumLess(a, b)

\* df[mask][[...]] raises KeyError when a column of the list is missing, for
\* any mask: the lists of lines 173, 188, 205 and 218
Selects(t, cols) == \A c \in Range(cols) : HasCol(t, c)

HighCpaChecked(t) == HasCol(t, "cpa") /\ HasCol(t, "campaign_name")
LowCtrChecked(t) == HasCol(t, "ctr") /\ HasCol(t, "campaign_name")
BudgetDrainChecked(t) ==
    HasCol(t, "spend") /\ HasCol(t, "conversions") /\ HasCol(t, "campaign_name")
LowRoasChecked(t) == HasCol(t, "roas") /\ HasCol(t, "campaign_name")

\* some selection of the checks made names a column the table lacks
PerformanceRaises(t) ==
    \/ HighCpaChecked(t) /\ ~Selects(t, <<"campaign_name", "cpa", "spend", "conversions">>)
    \/ LowCtrChecked(t) /\ ~Selects(t, <<"campaign_name", "ctr", "impressions">>)
    \/ BudgetDrainChecked(t) /\ ~Selects(t, <<"campaign_name", "spend", "impressions", "clicks">>)
    \/ LowRoasChecked(t) /\ ~Selects(t, <<"campaign_name", "roas", "spend", "conversion_value">>)

\* one entry of performance_issues['issues'], without its recommendation
Issue(type, row, metric, threshold) ==
    [type |-> type, campaign |-> row["campaign_name"], metric |-> metric,
     value |-> row[metric], threshold |-> threshold]

\* the issues of one check: one for each row of the table that satisfies Flag
IssuesOf(t, type, metric, threshold, Flag(_)) ==
    [i \in 1..Len(SelectSeq(t.rows, Flag)) |->
        Issue(type, SelectSeq(t.rows, Flag)[i], metric, threshold)]

HighCpa(t) ==
    IF ~HighCpaChecked(t) THEN <<>>
    ELSE IssuesOf(t, "high_cpa", "cpa", Quantile(t, "cpa", 9, 10),
                  LAMBDA row : Above(row["cpa"], Quantile(t, "cpa", 9, 10)))

LowCtr(t) ==
    IF ~LowCtrChecked(t) THEN <<>>
    ELSE IssuesOf(t, "low_ctr", "ctr", Quantile(t, "ctr", 1, 10),
                  LAMBDA row : /\ Below(row["ctr"], Quantile(t, "ctr", 1, 10))
                               /\ Above(row["impressions"], Whole(1000)))

BudgetDrain(t) ==
    IF ~BudgetDrainChecked(t) THEN <<>>
    ELSE IssuesOf(t, "budget_drainage", "spend", Null,
                  LAMBDA row : /\ Above(row["spend"], Quantile(t, "spend", 3, 4))
                               /\ IsZero(row["conversions"]))

LowRoas(t) ==
    IF ~LowRoasChecked(t) THEN <<>>
    ELSE IssuesOf(t, "negative_roas", "roas", Null,
                  LAMBDA row : Below(row["roas"], Whole(1)))

\* detect_performance_anomalies: the issues found, or the exception that
\* leaves the call
DetectPerformanceAnomalies(t) ==
    IF PerformanceRaises(t) THEN [raised |-> TRUE, error |-> "KeyError", issues |-> <<>>]
    ELSE [raised |-> FALSE, error |-> "",
          issues |-> HighCpa(t) \o LowCtr(t) \o BudgetDrain(t) \o LowRoas(t)]

\* the columns the checks look at
performance_cols ==
    <<"campaign_name", "cpa", "ctr", "roas", "spend", "conversions", "conversion_value",
      "impressions", "clicks">>

\* one value for each column, for the tables of every subset of the columns
OneValueDom ==
    [campaign_name |-> {Str("A")}, cpa |-> {Whole(2)}, ctr |-> {Whole(1)},
     roas |-> {Whole(2)}, spend |-> {Whole(2)}, conversions |-> {Whole(1)},
     conversion_value |-> {Whole(4)}, impressions |-> {Whole(2000)}, clicks |-> {Whole(20)}]

\* the values of the tables that have the columns of a check
PerformanceDom ==
    [campaign_name |-> {Str("A")}, cpa |-> {Whole(1), Whole(2)},
     ctr |-> {Whole(1), Whole(2)}, roas |-> {Num(1, 2), Whole(2)},
     spend |-> {Whole(1), Whole(2)}, conversions |-> {Whole(0), Whole(1)},
     conversion_value |-> {Whole(1)}, impressions |-> {Whole(500), Whole(2000)},
     clicks |-> {Whole(20)}]

PerformanceSchemas ==
    { <<"campaign_name", "cpa", "spend", "conversions", "impressions", "clicks">>,
      <<"campaign_name", "ctr", "impressions">>,
      <<"campaign_name", "roas", "spend", "conversion_value">> }

InitPerformance ==
    /\ qdf \in UNION {Tables(ColsOf(performance_cols, S), OneValueDom, 1, 1) :
                         S \in SUBSET Range(performance_cols)}
               \cup UNION {Tables(cs, PerformanceDom, 1, MaxRows) : cs \in PerformanceSchemas}
    /\ qInputs = <<>>
    /\ quality_reports = <<>>
    /\ performance_issues = <<>>
    /\ PipeIdle /\ NormIdle /\ IngestIdle /\ MergerIdle
    /\ MergeIdle /\ HistoryIdle /\ AppIdle

\* one call of detect_performance_anomalies(df)
DetectPerformanceAnomaliesCall ==
    /\ Len(performance_issues) < MaxCalls
    /\ performance_issues' = Append(performance_issues, DetectPerformanceAnomalies(qdf))
    /\ UNCHANGED <<pipeVars, normVars, ingestVars, qualityVars, mergerVars,
                   mergeVars, historyVars, appVars>>

NextPerformance == DetectPerformanceAnomaliesCall

SpecPerformance == InitPerformance /\ [][NextPerformance]_vars

\* C26: detect_performance_anomalies raises for no table, whatever subset of
\* the columns campaign_name, cpa, ctr, roas, spend, conversions,
\* conversion_value, impressions and clicks the table has.
C26_NeverRaises == \A i \in 1..Len(performance_issues) : ~performance_issues[i].raised

-----------------------------------------------------------------------------
(* DataMergerService.compare_platforms. *)

core_cols == <<"spend", "impressions", "clicks", "conversions", "conversion_value">>

\* platform_stats is computed: the table has the five columns summed
StatsComputed(t) == \A c \in Range(core_cols) : HasCol(t, c)

\* the five efficiency metrics of lines 273-277, rounded to 2 places
StatsCtr(row) == Round(FMul(FDiv(row["clicks"], row["impressions"]), Whole(100)), 2)
StatsCpc(row) == Round(FDiv(row["spend"], row["clicks"]), 2)
StatsCpm(row) == Round(FMul(FDiv(row["spend"], row["impressions"]), Whole(1000)), 2)
StatsCpa(row) == Round(FDiv(row["spend"], ReplaceZero(row["conversions"])), 2)
StatsRoas(row) == Round(FDiv(row["conversion_value"], ReplaceZero(row["spend"])), 2)

\* platform_stats['spend'].sum()
TotalSpend(stats) == FSum(Numbers(stats, "spend"))

\* platform_stats with the column spend_share
WithSpendShare(stats) ==
    SetColumn(stats, "spend_share",
              LAMBDA row : Round(FMul(FDiv(row["spend"], TotalSpend(stats)), Whole(100)), 1))

\* platform_stats of a table whose platform column has its standard name
PlatformStats(t) ==
    WithSpendShare(
      SetColumn(
        SetColumn(
          SetColumn(
            SetColumn(
              SetColumn(GroupByAgg(t, <<"platform">>, core_cols, <<>>), "ctr", StatsCtr),
              "cpc", StatsCpc),
            "cpm", StatsCpm),
          "cpa", StatsCpa),
        "roas", StatsRoas))

\* a < b of two floats that are not NaN
FloatLess(a, b) ==
    IF IsInf(a) THEN a.n < 0 /\ ~(IsInf(b) /\ b.n < 0)
    ELSE IF IsInf(b) THEN b.n > 0
    ELSE NumLess(a, b)

\* a sorts before b: NaN sorts last in either direction
SortsBefore(a, b, ascending) ==
    /\ ~IsNull(a)
    /\ IsNull(b) \/ (IF ascending THEN FloatLess(a, b) ELSE FloatLess(b, a))

\* the first of the rows that none of the others sorts before
FirstOf(rows, metric, ascending) ==
    CHOOSE i \in 1..Len(rows) :
        /\ \A j \in 1..Len(rows) : ~SortsBefore(rows[j][metric], rows[i][metric], ascending)
        /\ \A k \in 1..(i - 1) :
              \E j \in 1..Len(rows) : SortsBefore(rows[j][metric], rows[k][metric], ascending)

\* sort_values(metric) that sorts descending whatever is asked for
RECURSIVE SortValuesDescending(_, _, _)
SortValuesDescending(rows, metric, ascending) ==
    IF rows = <<>> THEN <<>>
    ELSE <<rows[FirstOf(rows, metric, FALSE)]>>
         \o SortValuesDescending([k \in 1..(Len(rows) - 1) |->
                IF k < FirstOf(rows, metric, FALSE) THEN rows[k] ELSE rows[k + 1]],
              metric, ascending)

\* platform_stats.sort_values(metric, ascending=ascending): rows with equal
\* values keep their order (the sort of a short column is an insertion sort)
RECURSIVE SortValues(_, _, _)
SortValues(rows, metric, ascending) ==
    IF rows = <<>> THEN <<>>
    ELSE <<rows[FirstOf(rows, metric, ascending)]>>
         \o SortValues([k \in 1..(Len(rows) - 1) |->
                IF k < FirstOf(rows, metric, ascending) THEN rows[k] ELSE rows[k + 1]],
              metric, ascending)

\* rankings[metric]
Ranking(stats, metric) ==
    [i \in 1..NRows(stats) |-> SortValues(stats.rows, metric, metric = "cpa")[i]["platform"]]

\* the dict returned for a table whose platform column has its standard name
Compared(t) ==
    [success |-> TRUE,
     platform_stats |-> IF StatsComputed(t) THEN PlatformStats(t).rows ELSE <<>>,
     rankings |-> [metric \in (IF StatsComputed(t) THEN {"roas", "ctr", "cpa"} ELSE {}) |->
                      Ranking(PlatformStats(t), metric)],
     total_platforms |->
         Cardinality({t.rows[r]["platform"] : r \in 1..NRows(t)} \ {Null})]

\* compare_platforms
ComparePlatforms(t) ==
    IF FindColumn(t, PLATFORM_COLUMN_CANDIDATES, 1) = ""
    THEN [success |-> FALSE, error |-> "No platform column found"]
    ELSE Compared(Standardize(t, PLATFORM_COLUMN_CANDIDATES, "platform"))

-----------------------------------------------------------------------------
(* SpecCompare: one of aggregate_by_date, aggregate_by_campaign and         *)
(* compare_platforms on a table that has the three grouping columns and     *)
(* some of the metric columns.                                              *)

grouping_cols == <<"date", "campaign_name", "platform">>

\* the tables of every subset of the five core columns
SubsetDom ==
    [date |-> {Str("01-02-2024")}, campaign_name |-> {Str("A")},
     platform |-> {Null, Str("google"), Str("meta")},
     spend |-> {Whole(2)}, impressions |-> {Whole(100)}, clicks |-> {Whole(10)},
     conversions |-> {Whole(1)}, conversion_value |-> {Whole(4)}]

\* the tables with all five core columns
CoreDom ==
    [date |-> {Str("01-02-2024")}, campaign_name |-> {Str("A")},
     platform |-> {Str("google"), Str("meta")},
     spend |-> {Whole(0), Whole(3)}, impressions |-> {Whole(0), Whole(100)},
     clicks |-> {Whole(10)}, conversions |-> {Whole(0), Whole(1)},
     conversion_value |-> {Whole(4)}]

InitCompare ==
    /\ adf \in UNION {Tables(grouping_cols \o ColsOf(core_cols, S), SubsetDom, 1, MaxRows) :
                         S \in SUBSET Range(core_cols)}
               \cup Tables(grouping_cols \o core_cols, CoreDom, 1, MaxRows)
    /\ aggregated = <<>>
    /\ NormIdle /\ IngestIdle /\ QualityIdle /\ MoreIdle

\* the record of one call
Called(op, arg, result) == <<[op |-> op, arg |-> arg, result |-> result]>>

\* result = aggregate_by_date(df, date_granularity)
AggregateDates ==
    /\ aggregated = <<>>
    /\ \E date_granularity \in {"daily", "weekly", "monthly"} :
          aggregated' = Called("aggregate_by_date", date_granularity,
                               AggregateByDate(adf, date_granularity))
    /\ UNCHANGED <<adf, normVars, ingestVars, qualityVars, moreVars>>

\* result = aggregate_by_campaign(df, include_platform_breakdown)
AggregateCampaigns ==
    /\ aggregated = <<>>
    /\ \E include_platform_breakdown \in BOOLEAN :
          aggregated' = Called("aggregate_by_campaign",
                               IF include_platform_breakdown THEN "True" ELSE "False",
                               AggregateByCampaign(adf, include_platform_breakdown))
    /\ UNCHANGED <<adf, normVars, ingestVars, qualityVars, moreVars>>

\* result = compare_platforms(df)
ComparePlatformsCall ==
    /\ aggregated = <<>>
    /\ aggregated' = Called("compare_platforms", "", ComparePlatforms(adf))
    /\ UNCHANGED <<adf, normVars, ingestVars, qualityVars, moreVars>>

NextCompare == AggregateDates \/ AggregateCampaigns \/ ComparePlatformsCall

SpecCompare == InitCompare /\ [][NextCompare]_vars

\* C23: for a table with the grouping column and any subset of the metric
\* columns, aggregate_by_date, aggregate_by_campaign and compare_platforms
\* return success without raising and aggregate exactly the metric columns
\* that the table has.
C23_ToleratesAbsentMetrics ==
    \A k \in 1..Len(aggregated) :
        /\ aggregated[k].result.success
        /\ aggregated[k].op # "compare_platforms" =>
              \A c \in Range(core_cols) :
                  HasCol(adf, c) <=> HasCol(aggregated[k].result.data, c)
        /\ aggregated[k].op = "compare_platforms" =>
              /\ Len(aggregated[k].result.platform_stats) =
                    aggregated[k].result.total_platforms
              /\ \A g \in 1..Len(aggregated[k].result.platform_stats) :
                    \A c \in Range(core_cols) :
                        HasCol(adf, c) <=> c \in DOMAIN aggregated[k].result.platform_stats[g]

\* the comparisons that computed the platform statistics
Comparisons ==
    {k \in 1..Len(aggregated) :
        aggregated[k].op = "compare_platforms" /\ StatsComputed(adf)}

\* the value of a metric for a platform in the statistics returned
StatOf(result, platform, metric) ==
    result.platform_stats[CHOOSE g \in 1..Len(result.platform_stats) :
                             result.platform_stats[g]["platform"] = platform][metric]

\* the ranking lists every platform of the table once, and no platform after
\* one that it beats: a higher value is better, or a lower one when ascending
Ranked(result, metric, ascending) ==
    /\ Range(result.rankings[metric]) = {adf.rows[r]["platform"] : r \in 1..NRows(adf)} \ {Null}
    /\ Len(result.rankings[metric]) = Cardinality(Range(result.rankings[metric]))
    /\ \A i, j \in 1..Len(result.rankings[metric]) :
          i < j => ~SortsBefore(StatOf(result, result.rankings[metric][j], metric),
                                StatOf(result, result.rankings[metric][i], metric),
                                ascending)

-----------------------------------------------------------------------------
(* DataIngestionService.ingest_from_buffer and the ingestion history. *)

\* os.path.splitext(filename)[1].lower() of the file names uploaded
FileExt(filename) ==
    CASE filename = "meta.csv" -> ".csv"
      [] filename = "GOOGLE.CSV" -> ".csv"
      [] filename = "export.json" -> ".json"
      [] filename = "notes.txt" -> ".txt"

\* file_ext[1:]
FileType(filename) ==
    CASE FileExt(filename) = ".csv" -> "csv"
      [] FileExt(filename) = ".json" -> "json"
      [] FileExt(filename) = ".txt" -> "txt"

\* the dict that _process_dataframe returns: of its stats, the shape
Ingested(detected, cols, rows, source, file_type) ==
    [success |-> TRUE,
     metadata |-> [source |-> source, file_type |-> file_type,
                   platform |-> detected.platform,
                   platform_confidence |-> detected.confidence,
                   total_rows |-> rows, total_columns |-> Len(cols)]]

\* ingestion_record, without its timestamp
IngestionRecord(detected, cols, rows, source, file_type) ==
    [source |-> source, file_type |-> file_type, platform |-> detected.platform,
     confidence |-> detected.confidence, rows |-> rows, columns |-> Len(cols)]

\* self.ingestion_history.insert(0, ingestion_record)
Prepended(history, record) == <<record>> \o history

\* self.ingestion_history.append(ingestion_record)
Appended(history, record) == Append(history, record)

\* _process_dataframe for a table of string column names, the platform
\* detected given: the dict returned and the history with the record appended
Processed(history, detected, cols, rows, source, file_type) ==
    [result |-> Ingested(detected, cols, rows, source, file_type),
     history |-> Appended(history,
                          IngestionRecord(detected, cols, rows, source, file_type))]

\* _process_dataframe
ProcessDataframe(history, cols, rows, source, file_type) ==
    Processed(history, DetectPlatform(cols), cols, rows, source, file_type)

\* the dict returned by the except clause, and the history as it was
Failed(history, error) == [result |-> [success |-> FALSE, error |-> error], history |-> history]

\* ingest_from_buffer: the content of the buffer is a table, a table whose
\* column labels are numbers (col.strip() raises at line 170), or bytes that
\* the reader of the format rejects
IngestFromBuffer(history, buffer, filename) ==
    IF FileExt(filename) \notin {".csv", ".xlsx", ".xls", ".json"}
    THEN Failed(history, "Unsupported file format")
    ELSE IF buffer.kind = "garbage" THEN Failed(history, "ParserError")
    ELSE IF buffer.kind = "numbered" THEN Failed(history, "AttributeError")
    ELSE ProcessDataframe(history, buffer.cols, buffer.rows, filename, FileType(filename))

Filenames == {"meta.csv", "GOOGLE.CSV", "export.json", "notes.txt"}

\* the contents of the buffers uploaded
Buffers ==
    {[kind |-> k, cols |-> <<>>, rows |-> 0] : k \in {"garbage", "numbered"}}
    \cup {[kind |-> "table", cols |-> SubSeq(Vocabulary, 1, 3), rows |-> 1],
          [kind |-> "table", cols |-> SubSeq(Vocabulary, 5, 7), rows |-> 2]}

\* the calls of ingest_from_buffer on one service
MaxIngests == 3

InitIngest ==
    /\ ingestion_history = <<>>
    /\ ingested = <<>>
    /\ PipeIdle /\ NormIdle /\ IngestIdle /\ QualityIdle /\ MergerIdle
    /\ MergeIdle /\ performance_issues = <<>> /\ AppIdle

\* one call of ingest_from_buffer; ingested keeps what was passed, what was
\* returned and the history as the call left it
IngestFromBufferCall(buffer, filename) ==
    /\ Len(ingested) < MaxIngests
    /\ \E out \in {IngestFromBuffer(ingestion_history, buffer, filename)} :
          /\ ingestion_history' = out.history
          /\ ingested' = Append(ingested, [buffer |-> buffer, filename |-> filename,
                                           result |-> out.result, history |-> out.history])
    /\ UNCHANGED <<pipeVars, normVars, ingestVars, qualityVars, mergerVars,
                   mergeVars, performance_issues, appVars>>

NextIngest == \E buffer \in Buffers, filename \in Filenames : IngestFromBufferCall(buffer, filename)

SpecIngest == InitIngest /\ [][NextIngest]_vars

\* the record that the k-th call, a successful one, is to leave
RecordOf(k) ==
    [source |-> ingested[k].filename,
     file_type |-> ingested[k].result.metadata.file_type,
     platform |-> ingested[k].result.metadata.platform,
     confidence |-> ingested[k].result.metadata.platform_confidence,
     rows |-> ingested[k].buffer.rows, columns |-> Len(ingested[k].buffer.cols)]

\* the records of the successful calls among the first k, in call order
RECURSIVE RecordsOf(_)
RecordsOf(k) ==
    IF k = 0 THEN <<>>
    ELSE IF ingested[k].result.success THEN Append(RecordsOf(k - 1), RecordOf(k))
    ELSE RecordsOf(k - 1)

\* C25: after every call the ingestion history is the records of the calls
\* that returned success so far, in call order, each with its call's source,
\* platform, confidence and shape; a call of an unsupported extension or of
\* unparseable content returns success false with an error and leaves the
\* history as it was.
C25_HistoryAppendOnly ==
    /\ ingestion_history = RecordsOf(Len(ingested))
    /\ \A k \in 1..Len(ingested) :
          /\ ingested[k].history = RecordsOf(k)
          /\ (FileExt(ingested[k].filename) = ".txt" \/ ingested[k].buffer.kind # "table")
                => DOMAIN ingested[k].result = {"success", "error"}
                   /\ ~ingested[k].result.success

\* a failed call between two successful calls of different files
C25_Witness ==
    /\ Len(ingested) = 3
    /\ ingested[1].result.success /\ ~ingested[2].result.success
    /\ ingested[3].result.success
    /\ Len(ingestion_history) = 2
    /\ ingestion_history[1] # ingestion_history[2]

-----------------------------------------------------------------------------
(* normalize as one function of the table: the seven stages in their order, *)
(* each given the table and the log that the stages before it left.         *)

\* an exception leaves normalize
NormalizeRaised == [success |-> FALSE, raised |-> "AttributeError"]

\* Step 7 and the dict returned
FromMissingValues(t, log) ==
    IF MissingRaises(t) THEN NormalizeRaised
    ELSE [success |-> TRUE, data |-> HandleMissingValues(t),
          steps_performed |-> log \o HandleMissingValuesLog(t)]

\* Step 6
FromDerived(t, log) ==
    Only({FromMissingValues(x, log \o CalculateDerivedMetricsLog(t)) :
             x \in {CalculateDerivedMetrics(t)}})

\* Step 5
FromDuplicates(t, log) ==
    Only({FromDerived(x, log \o DeduplicateLog(t)) : x \in {Deduplicate(t)}})

\* Step 4
FromCurrency(t, currency, log) ==
    Only({FromDuplicates(x, log \o NormalizeCurrencyLog(t, currency)) :
             x \in {NormalizeCurrency(t, currency)}})

\* Step 3
FromNumeric(t, currency, log) ==
    IF NumericRaises(t) THEN NormalizeRaised
    ELSE Only({FromCurrency(x, currency, log \o NormalizeNumericLog(t)) :
                  x \in {NormalizeNumeric(t)}})

\* Step 2
FromDates(t, currency, log) ==
    IF Duplicated(t, "date") THEN NormalizeRaised
    ELSE Only({FromNumeric(x, currency, log \o NormalizeDatesLog(t)) :
                  x \in {NormalizeDates(t)}})

\* normalize(df, platform, currency) without custom mappings
NormalizeTable(t, schema, currency) ==
    Only({FromDates(x, currency, MapColumnsLog(t, AllMappings(schema, NoMappings))) :
             x \in {MapColumns(t, schema, NoMappings)}})

-----------------------------------------------------------------------------
(* app.py: the requests of the API and data_store. *)

MaxRequests == 3
MaxClock == 2

\* datetime.now() counts in ticks, two to the second
TicksPerSecond == 2

\* f"{kind}_{datetime.now().strftime('%Y%m%d%H%M%S')}": the prefix and the
\* time to the second, what is less than a second left out
DataId(kind, now) == [kind |-> kind, at |-> now \div TicksPerSecond]

\* a handle that no request was given, and the data_id of a response without
NoSuchId == [kind |-> "data", at |-> 99]
NoId == [kind |-> "", at |-> 0]

\* an assignment that keeps the new entry alone
StoredAlone(store, data_id, table) == [x \in {data_id} |-> table]

\* data_store[data_id] = table
Stored(store, data_id, table) ==
    [x \in DOMAIN store \cup {data_id} |-> IF x = data_id THEN table ELSE store[x]]

\* the times datetime.now() can give a request: now, or a tick later
Times == {now \in {clock, clock + 1} : now <= MaxClock}

\* the handles a request can name
Named == DOMAIN data_store \cup {NoSuchId}

\* allowed_file
AllowedFile(filename) == FileExt(filename) \in {".csv", ".xlsx", ".xls", ".json"}

\* the tables of the files uploaded
UploadTable ==
    [cols |-> <<"date", "campaign_name", "platform", "spend", "conversions">>,
     rows |-> <<[date |-> Str("2024-02-01"), campaign_name |-> Str("A"),
                 platform |-> Str("google"), spend |-> Whole(2),
                 conversions |-> Whole(1)]>>]

SecondTable ==
    [cols |-> <<"date", "campaign_name", "clicks", "impressions">>,
     rows |-> <<[date |-> Str("2024-02-01"), campaign_name |-> Str("B"),
                 clicks |-> Whole(10), impressions |-> Whole(100)]>>]

\* a file of the table t: its name, its content as the ingestion reads it,
\* and the table that the ingestion returns for it
FileOf(filename, t) ==
    [filename |-> filename,
     buffer |-> [kind |-> "table", cols |-> [i \in 1..Len(t.cols) |-> Spelling(t.cols[i])],
                 rows |-> NRows(t)],
     table |-> t]

Files ==
    {FileOf("meta.csv", UploadTable), FileOf("export.json", SecondTable),
     [filename |-> "GOOGLE.CSV", buffer |-> [kind |-> "garbage", cols |-> <<>>, rows |-> 0],
      table |-> EmptyTable]}

\* the table of get_sample_data: one of its 360 rows, its random numbers
\* as one draw gives them
SampleTables ==
    {[cols |-> <<"date", "platform", "campaign_name", "impressions", "clicks", "spend",
                 "conversions", "conversion_value">>,
      rows |-> <<[date |-> Str("2024-02-01"), platform |-> Str("Google Ads"),
                  campaign_name |-> Str("Brand_Search"), impressions |-> Whole(5000),
                  clicks |-> Whole(250), spend |-> Whole(50),
                  conversions |-> Whole(1), conversion_value |-> Whole(20)]>>]}

\* one request served: the endpoint, the handle named or given, the status
\* and the error of the response
Response(request, data_id, status, error) ==
    [request |-> request, data_id |-> data_id, status |-> status, error |-> error]

\* the request is answered: return jsonify(...), status
Answered(response) ==
    /\ responses' = <<response>>
    /\ served' = served + 1

\* the status of the response for a result of a service
StatusOf(result) ==
    IF "raised" \in DOMAIN result THEN 500 ELSE IF result.success THEN 200 ELSE 400

\* what no request of the API touches
appFrame ==
    <<df, hist, calls, STANDARD_SCHEMA, pc, args, log_entries, columns, detections,
      qdf, qInputs, adf, aggregated, datasets, merged, performance_issues, ingested>>

\* the service logs that a request can append to
appLogs == <<ingestion_history, merge_history, normalization_log, quality_reports>>

InitApp ==
    /\ data_store = <<>>
    /\ clock = 0
    /\ responses = <<>>
    /\ served = 0
    /\ NormIdle /\ IngestIdle /\ QualityIdle /\ MergerIdle
    /\ MergeIdle /\ performance_issues = <<>> /\ HistoryIdle

\* POST /api/upload
UploadFile(file, now) ==
    /\ served < MaxRequests
    /\ clock' = now
    /\ IF ~AllowedFile(file.filename)
       THEN /\ Answered(Response("upload", NoId, 400, "File type not allowed"))
            /\ UNCHANGED <<data_store, ingestion_history>>
       ELSE \E out \in {IngestFromBuffer(ingestion_history, file.buffer, file.filename)} :
              /\ ingestion_history' = out.history
              /\ IF out.result.success
                 THEN /\ data_store' = Stored(data_store, DataId("data", now), file.table)
                      /\ Answered(Response("upload", DataId("data", now), 200, ""))
                 ELSE /\ Answered(Response("upload", NoId, 400, out.result.error))
                      /\ UNCHANGED data_store
    /\ UNCHANGED <<appFrame, merge_history, normalization_log, quality_reports>>

\* the loop of upload_multiple_files from its i-th file on: the history of
\* the ingestion service, the tables ingested and their platforms
RECURSIVE IngestFiles(_, _, _, _, _)
IngestFiles(history, files, i, tables, platforms) ==
    IF i > Len(files)
    THEN [history |-> history, datasets |-> tables, platforms |-> platforms]
    ELSE IF ~AllowedFile(files[i].filename)
    THEN IngestFiles(history, files, i + 1, tables, platforms)
    ELSE IF IngestFromBuffer(history, files[i].buffer, files[i].filename).result.success
    THEN IngestFiles(IngestFromBuffer(history, files[i].buffer, files[i].filename).history,
                     files, i + 1, Append(tables, files[i].table),
                     Append(platforms,
                            IngestFromBuffer(history, files[i].buffer, files[i].filename)
                                .result.metadata.platform))
    ELSE IngestFiles(history, files, i + 1, tables, platforms)

\* the lists of files uploaded together
FileLists ==
    {<<FileOf("meta.csv", UploadTable), FileOf("export.json", SecondTable)>>,
     <<FileOf("notes.txt", UploadTable),
       [filename |-> "GOOGLE.CSV", buffer |-> [kind |-> "garbage", cols |-> <<>>, rows |-> 0],
        table |-> EmptyTable]>>}

\* POST /api/upload-multiple
UploadMultipleFiles(files, now) ==
    /\ served < MaxRequests
    /\ clock' = now
    /\ \E read \in {IngestFiles(ingestion_history, files, 1, <<>>, <<>>)} :
          /\ ingestion_history' = read.history
          /\ IF read.datasets = <<>>
             THEN /\ Answered(Response("upload-multiple", NoId, 400,
                                                             "No valid files processed"))
                  /\ UNCHANGED <<data_store, merge_history>>
             ELSE \E merge_result \in {MergeDatasets(read.datasets, read.platforms, "append")} :
                    IF merge_result.success
                    THEN /\ data_store' = Stored(data_store, DataId("merged", now),
                                                 merge_result.data)
                         /\ merge_history' = Append(merge_history, merge_result.metadata)
                         /\ Answered(Response("upload-multiple", DataId("merged", now), 200, ""))
                    ELSE /\ Answered(Response("upload-multiple", NoId, 400, merge_result.error))
                         /\ UNCHANGED <<data_store, merge_history>>
    /\ UNCHANGED <<appFrame, normalization_log, quality_reports>>

\* GET /api/sample-data
GetSampleData(table, now) ==
    /\ served < MaxRequests
    /\ clock' = now
    /\ data_store' = Stored(data_store, DataId("sample", now), table)
    /\ Answered(Response("sample-data", DataId("sample", now), 200, ""))
    /\ UNCHANGED <<appFrame, appLogs>>

\* a request that names a handle not in data_store
NotFound(request, data_id, error) ==
    /\ data_id \notin DOMAIN data_store
    /\ Answered(Response(request, data_id, 404, error))
    /\ UNCHANGED <<data_store, appLogs>>

\* POST /api/normalize/<data_id>
NormalizeData(data_id, currency) ==
    /\ served < MaxRequests
    /\ \/ NotFound("normalize", data_id, "Data not found. Upload data first.")
       \/ /\ data_id \in DOMAIN data_store
          /\ \E result \in {NormalizeTable(data_store[data_id], STANDARD_SCHEMA, currency)} :
                /\ Answered(Response("normalize", data_id, StatusOf(result),
                               IF StatusOf(result) = 200 THEN "" ELSE result.raised))
                /\ IF StatusOf(result) = 200
                   THEN /\ data_store' = Stored(data_store, data_id, result.data)
                        /\ normalization_log' =
                              Append(normalization_log,
                                     [original_columns |-> data_store[data_id].cols,
                                      normalized_columns |-> result.data.cols,
                                      original_rows |-> NRows(result.data),
                                      final_rows |-> NRows(result.data),
                                      steps_performed |-> result.steps_performed])
                   ELSE UNCHANGED <<data_store, normalization_log>>
          /\ UNCHANGED <<ingestion_history, merge_history, quality_reports>>
    /\ UNCHANGED <<appFrame, clock>>

\* a request that reads the table of a handle and answers with a status
Reads(request, data_id, status) ==
    /\ data_id \in DOMAIN data_store
    /\ Answered(Response(request, data_id, status,
                                    IF status = 200 THEN "" ELSE "error"))
    /\ UNCHANGED data_store

\* GET /api/quality/check/<data_id>
CheckDataQuality(data_id) ==
    /\ served < MaxRequests
    /\ \/ NotFound("quality/check", data_id, "Data not found")
       \/ /\ Reads("quality/check", data_id, 200)
          /\ quality_reports' = Append(quality_reports, CheckQuality(data_store[data_id]))
          /\ UNCHANGED <<ingestion_history, merge_history, normalization_log>>
    /\ UNCHANGED <<appFrame, clock>>

\* GET /api/quality/anomalies/<data_id>
DetectAnomalies(data_id) ==
    /\ served < MaxRequests
    /\ \/ NotFound("quality/anomalies", data_id, "Data not found")
       \/ /\ Reads("quality/anomalies", data_id,
                   IF DetectPerformanceAnomalies(data_store[data_id]).raised
                   THEN 500 ELSE 200)
          /\ UNCHANGED appLogs
    /\ UNCHANGED <<appFrame, clock>>

\* GET /api/aggregate/date/<data_id>
AggregateDateRequest(data_id) ==
    /\ served < MaxRequests
    /\ \/ NotFound("aggregate/date", data_id, "Data not found")
       \/ /\ Reads("aggregate/date", data_id,
                   StatusOf(AggregateByDate(data_store[data_id], "daily")))
          /\ UNCHANGED appLogs
    /\ UNCHANGED <<appFrame, clock>>

\* GET /api/aggregate/campaign/<data_id>
AggregateCampaignRequest(data_id) ==
    /\ served < MaxRequests
    /\ \/ NotFound("aggregate/campaign", data_id, "Data not found")
       \/ /\ Reads("aggregate/campaign", data_id,
                   StatusOf(AggregateByCampaign(data_store[data_id], TRUE)))
          /\ UNCHANGED appLogs
    /\ UNCHANGED <<appFrame, clock>>

\* GET /api/compare/platforms/<data_id>: the result is returned as it is
ComparePlatformsRequest(data_id) ==
    /\ served < MaxRequests
    /\ \/ NotFound("compare/platforms", data_id, "Data not found")
       \/ /\ Reads("compare/platforms", data_id,
                   IF "raised" \in DOMAIN ComparePlatforms(data_store[data_id])
                   THEN 500 ELSE 200)
          /\ UNCHANGED appLogs
    /\ UNCHANGED <<appFrame, clock>>

\* GET /api/data/<data_id>
GetData(data_id) ==
    /\ served < MaxRequests
    /\ \/ NotFound("data", data_id, "Data not found")
       \/ /\ Reads("data", data_id, 200)
          /\ UNCHANGED appLogs
    /\ UNCHANGED <<appFrame, clock>>

NextApp ==
    \/ \E file \in Files, now \in Times : UploadFile(file, now)
    \/ \E files \in FileLists, now \in Times : UploadMultipleFiles(files, now)
    \/ \E table \in SampleTables, now \in Times : GetSampleData(table, now)
    \/ \E data_id \in Named : NormalizeData(data_id, "USD")
    \/ \E data_id \in Named : CheckDataQuality(data_id)
    \/ \E data_id \in Named : DetectAnomalies(data_id)
    \/ \E data_id \in Named : AggregateDateRequest(data_id)
    \/ \E data_id \in Named : AggregateCampaignRequest(data_id)
    \/ \E data_id \in Named : ComparePlatformsRequest(data_id)
    \/ \E data_id \in Named : GetData(data_id)

SpecApp == InitApp /\ [][NextApp]_vars

\* the response that the step gives, and whether the step serves a request
Answer == responses'[1]
Serves == served' = served + 1

creating_requests == {"upload", "upload-multiple", "sample-data"}
reading_requests ==
    {"quality/check", "quality/anomalies", "aggregate/date", "aggregate/campaign",
     "compare/platforms", "data"}

\* C29: any two successful table-creating requests of the same kind receive
\* distinct handles, so that a later one never overwrites the table of an
\* earlier one: the handle of a successful upload, multi-file upload or
\* sample-data request is not yet a key of data_store.
C29_DistinctHandles ==
    [][(Serves /\ Answer.request \in creating_requests /\ Answer.status = 200)
          => Answer.data_id \notin DOMAIN data_store]_vars

\* what a request naming a handle leaves alone when the handle is unknown
NothingChanges == UNCHANGED <<data_store, appLogs>>

\* C28: no handle leaves data_store and the handle of a successful creating
\* request is a key of it; a normalize request on a handle replaces the entry
\* of that handle only; the quality, anomaly, aggregation, comparison and
\* data requests leave data_store as it is; a request naming a handle that is
\* not in data_store is answered 404 'Data not found' and changes nothing.
C28_StoreLifecycle ==
    [][/\ DOMAIN data_store \subseteq DOMAIN data_store'
       /\ Serves =>
            /\ (Answer.request \in creating_requests /\ Answer.status = 200)
                  => Answer.data_id \in DOMAIN data_store'
            /\ Answer.request = "normalize"
                  => \A h \in DOMAIN data_store \ {Answer.data_id} :
                         data_store'[h] = data_store[h]
            /\ Answer.request \in reading_requests => data_store' = data_store
            /\ (Answer.request \notin creating_requests
                    /\ Answer.data_id \notin DOMAIN data_store)
                  => /\ Answer.status = 404
                     /\ Answer.error \in {"Data not found",
                                          "Data not found. Upload data first."}
                     /\ NothingChanges]_vars

\* an uploaded table was normalized in place while a sample table stored
\* beside it stayed as it was
C28_Witness ==
    /\ responses = <<Response("normalize", DataId("data", 0), 200, "")>>
    /\ DOMAIN data_store = {DataId("data", 0), DataId("sample", 0)}
    /\ data_store[DataId("sample", 0)] \in SampleTables
    /\ HasCol(data_store[DataId("data", 0)], "cpa")

=============================================================================
